---- MODULE Spec2Model ----
(***************************************************************************)
(* A model of jest-roblox-assassin's run orchestrator (runJestRoblox and   *)
(* executeLuauTest): discovery, sharding over workers, concurrent shard    *)
(* execution, merging of the shard results, and the reporter lifecycle.    *)
(***************************************************************************)
EXTENDS Integers, Sequences, FiniteSets, TLC

\* ------------------------------------------------------------------ bounds
MaxFiles == 7
MaxWorkers == 3
NumHashes == 2

\* ------------------------------------------------------------- small helpers
Min(a, b) == IF a < b THEN a ELSE b

\* Math.ceil(a / b) for a >= 0, b >= 1
Ceil(a, b) == (a + b - 1) \div b

RECURSIVE Flatten(_)
Flatten(ss) == IF ss = <<>> THEN <<>> ELSE Head(ss) \o Flatten(Tail(ss))

RECURSIVE Repeat(_, _)
Repeat(c, k) == IF k = 0 THEN <<>> ELSE <<c>> \o Repeat(c, k - 1)

\* ------------------------------------------------------- discovered files
\* discoverTestFilesFromFilesystem returns `${rootDir}/${relative path without
\* .luau}`.  Paths are sequences of characters.  rootDir is "s"; the i-th test
\* file of the output tree is a.t or b.t in the directory "", "xs/", "xxs/", ...
\* (readdir order: files of a directory, then its sub-directories by name).
RootDir == <<"s">>

RelativePath(i) ==
    LET d == (i - 1) \div 2
        base == IF i % 2 = 1 THEN <<"a", ".", "t">> ELSE <<"b", ".", "t">>
    IN  (IF d = 0 THEN <<>> ELSE Repeat("x", d) \o <<"s", "/">>) \o base

JestPath(i) == RootDir \o <<"/">> \o RelativePath(i)

DiscoverTestFiles(n) == [i \in 1..n |-> JestPath(i)]

\* ------------------------------------------------------------ partitioning
\* as BuildWorkers, but the shard size rounds down
RECURSIVE BuildWorkersRoundingDown(_, _, _, _)
BuildWorkersRoundingDown(suites, maxWorkers, i, acc) ==
    LET suitesPerWorker == Len(suites) \div maxWorkers
        start == i * suitesPerWorker
        end == Min(start + suitesPerWorker, Len(suites))
        workerSuites == SubSeq(suites, start + 1, end)
    IN  IF i >= maxWorkers THEN acc
        ELSE IF Len(workerSuites) = 0 THEN acc
        ELSE BuildWorkersRoundingDown(suites, maxWorkers, i + 1,
                          Append(acc, [id |-> i, suites |-> workerSuites]))

\* for (i = 0; i < maxWorkers; i++) { slice(start, end); if empty break; push }
RECURSIVE BuildWorkers(_, _, _, _)
BuildWorkers(suites, maxWorkers, i, acc) ==
    LET suitesPerWorker == Ceil(Len(suites), maxWorkers)
        start == i * suitesPerWorker
        end == Min(start + suitesPerWorker, Len(suites))
        workerSuites == SubSeq(suites, start + 1, end)
    IN  IF i >= maxWorkers THEN acc
        ELSE IF Len(workerSuites) = 0 THEN acc
        ELSE BuildWorkers(suites, maxWorkers, i + 1,
                          Append(acc, [id |-> i, suites |-> workerSuites]))

SplitWorkers(suites, maxWorkers) == BuildWorkers(suites, maxWorkers, 0, <<>>)

\* ------------------------------------------------------ the shard filter
\* s.replace(/[.*+?^${}()|[\]\\]/g, "\\$&")
RegexSpecials == {".", "*", "+", "?", "^", "$", "{", "}", "(", ")", "|", "[", "]", "\\"}

RECURSIVE EscapeRegExp(_)
EscapeRegExp(s) ==
    IF s = <<>> THEN <<>>
    ELSE (IF Head(s) \in RegexSpecials THEN <<"\\", Head(s)>> ELSE <<Head(s)>>)
         \o EscapeRegExp(Tail(s))

RECURSIVE JoinWith(_, _)
JoinWith(ss, sep) ==
    IF ss = <<>> THEN <<>>
    ELSE IF Len(ss) = 1 THEN ss[1]
    ELSE ss[1] \o <<sep>> \o JoinWith(Tail(ss), sep)

\* workerOptions.testPathPattern = `(${escapedPaths.join("|")})$`
TestPathPattern(suites) ==
    <<"(">> \o JoinWith([k \in 1..Len(suites) |-> EscapeRegExp(suites[k])], "|")
            \o <<")", "$">>

\* The regular-expression dialect the filter uses: a group of alternatives of
\* atoms (an escaped character, "." for any character, or a plain character)
\* followed by the end anchor.  RegexAtoms turns the text of one alternative
\* into its atoms.
RECURSIVE RegexAtoms(_)
RegexAtoms(p) ==
    IF p = <<>> THEN <<>>
    ELSE IF Head(p) = "\\" /\ Len(p) >= 2
         THEN <<[any |-> FALSE, ch |-> p[2]]>> \o RegexAtoms(Tail(Tail(p)))
    ELSE IF Head(p) = "."
         THEN <<[any |-> TRUE, ch |-> "."]>> \o RegexAtoms(Tail(p))
    ELSE <<[any |-> FALSE, ch |-> Head(p)]>> \o RegexAtoms(Tail(p))

\* Splits the text between the parentheses at every unescaped "|".
RECURSIVE SplitAlternatives(_, _)
SplitAlternatives(p, cur) ==
    IF p = <<>> THEN <<cur>>
    ELSE IF Head(p) = "\\" /\ Len(p) >= 2
         THEN SplitAlternatives(Tail(Tail(p)), cur \o <<p[1], p[2]>>)
    ELSE IF Head(p) = "|"
         THEN <<cur>> \o SplitAlternatives(Tail(p), <<>>)
    ELSE SplitAlternatives(Tail(p), Append(cur, Head(p)))

\* pattern is "(" body ")" "$": the alternatives of body, as atoms
PatternAlternatives(pattern) ==
    LET body == SubSeq(pattern, 2, Len(pattern) - 2)
        alts == SplitAlternatives(body, <<>>)
    IN  [k \in 1..Len(alts) |-> RegexAtoms(alts[k])]

\* the atoms match text from position `from` up to the end of text ($)
AtomsMatchToEnd(atoms, text, from) ==
    /\ from + Len(atoms) - 1 = Len(text)
    /\ \A k \in 1..Len(atoms) :
           atoms[k].any \/ atoms[k].ch = text[from + k - 1]

\* new RegExp(pattern).test(text): an unanchored search, anchored at the end
RegexTest(pattern, text) ==
    LET alts == PatternAlternatives(pattern)
    IN  \E k \in 1..Len(alts) :
            \E from \in 1..(Len(text) + 1) :
                AtomsMatchToEnd(alts[k], text, from)

\* ------------------------------------------------------------ result data
CountFields ==
    {"numPassedTests", "numFailedTests", "numPendingTests", "numTodoTests",
     "numTotalTests", "numPassedTestSuites", "numFailedTestSuites",
     "numPendingTestSuites", "numRuntimeErrorTestSuites", "numTotalTestSuites"}

\* results.snapshot of a payload that carries none
NoSnapshot == <<>>

\* lines 686-703: combinedSnapshot before the loop
CombinedSnapshotStart ==
    [added |-> 0, fileDeleted |-> FALSE, matched |-> 0, unchecked |-> 0,
     uncheckedKeys |-> <<>>, unmatched |-> 0, updated |-> 0, filesAdded |-> 0,
     filesRemoved |-> 0, filesRemovedList |-> <<>>, filesUnmatched |-> 0,
     filesUpdated |-> 0, didUpdate |-> FALSE, total |-> 0, failure |-> FALSE,
     uncheckedKeysByFile |-> <<>>]

\* lines 729-761: combinedSnapshot after one more snapshot went in
AggregateSnapshot(combinedSnapshot, snap) ==
    [combinedSnapshot EXCEPT
        !.added = @ + snap.added,
        !.matched = @ + snap.matched,
        !.unchecked = @ + snap.unchecked,
        !.unmatched = @ + snap.unmatched,
        !.updated = @ + snap.updated,
        !.filesAdded = @ + snap.filesAdded,
        !.filesRemoved = @ + snap.filesRemoved,
        !.filesUnmatched = @ + snap.filesUnmatched,
        !.filesUpdated = @ + snap.filesUpdated,
        !.total = @ + snap.total,
        !.didUpdate = @ \/ snap.didUpdate,
        !.failure = @ \/ snap.failure,
        !.filesRemovedList = @ \o snap.filesRemovedList,
        !.uncheckedKeysByFile = @ \o snap.uncheckedKeysByFile,
        !.uncheckedKeys = @ \o snap.uncheckedKeys]

\* line 728: if (result.results.snapshot)
AggregateIfPresent(combinedSnapshot, snapshot) ==
    IF snapshot = NoSnapshot THEN combinedSnapshot
    ELSE AggregateSnapshot(combinedSnapshot, snapshot)

\* a results record with the snapshot summary the runtime reports
WithSnapshot(results, snapshot) == [results EXCEPT !.snapshot = snapshot]

\* The snapshot summaries of the sample payloads: one of a run that wrote a
\* new snapshot file, one of a run with a failed and an obsolete snapshot
\* whose file was removed.
WrittenSnapshot ==
    [added |-> 1, fileDeleted |-> FALSE, matched |-> 1, unchecked |-> 0,
     uncheckedKeys |-> <<>>, unmatched |-> 0, updated |-> 1, filesAdded |-> 1,
     filesRemoved |-> 0, filesRemovedList |-> <<>>, filesUnmatched |-> 0,
     filesUpdated |-> 1, didUpdate |-> TRUE, total |-> 2, failure |-> FALSE,
     uncheckedKeysByFile |-> <<>>]

FailedSnapshot ==
    [added |-> 0, fileDeleted |-> TRUE, matched |-> 0, unchecked |-> 1,
     uncheckedKeys |-> <<"k">>, unmatched |-> 1, updated |-> 0, filesAdded |-> 0,
     filesRemoved |-> 1, filesRemovedList |-> <<"f">>, filesUnmatched |-> 1,
     filesUpdated |-> 0, didUpdate |-> FALSE, total |-> 2, failure |-> TRUE,
     uncheckedKeysByFile |-> <<"u">>]

\* A results record as the runtime's payload carries it (and as the merge
\* builds it): the ten counters, the success flag and the suite list.
ResultsRecord(p, f, pe, td, tt, ps, fs, pes, re, ts, ok, suites) ==
    [numPassedTests |-> p, numFailedTests |-> f, numPendingTests |-> pe,
     numTodoTests |-> td, numTotalTests |-> tt, numPassedTestSuites |-> ps,
     numFailedTestSuites |-> fs, numPendingTestSuites |-> pes,
     numRuntimeErrorTestSuites |-> re, numTotalTestSuites |-> ts,
     success |-> ok, testResults |-> suites, snapshot |-> NoSnapshot]

NoResults == ResultsRecord(0, 0, 0, 0, 0, 0, 0, 0, 0, 0, FALSE, <<>>)

\* A coverage map, by the files it has entries for and by how often
\* rewriteCoverageData was applied to it; NoCoverage is no map at all.
NoCoverage == <<>>

CoverageMap(entries) == [entries |-> entries, rewrites |-> 0]

\* What executeLuauTest resolves to: {exit} for "No tests found", or the
\* decoded payload {results, globalConfig?}.  kind "none" is no value yet.
NoValue ==
    [kind |-> "none", exit |-> 0, results |-> NoResults, hasGlobalConfig |-> FALSE,
     coverage |-> NoCoverage]

ExitValue(code) ==
    [kind |-> "exit", exit |-> code, results |-> NoResults, hasGlobalConfig |-> FALSE,
     coverage |-> NoCoverage]

PayloadValue(results, gc) ==
    [kind |-> "payload", exit |-> 0, results |-> results, hasGlobalConfig |-> gc,
     coverage |-> NoCoverage]

\* the payload with the coverage map the runtime put into it
WithCoverage(value, coverage) == [value EXCEPT !.coverage = coverage]

\* The payloads the runtime is taken to answer with (the collaborator is
\* opaque; these are its sample answers): a passing run, a run with a failed,
\* a pending and a todo test, and a run whose only suite failed to load (no
\* tests at all, no globalConfig).
PassingPayload(suites) ==
    PayloadValue(WithSnapshot(ResultsRecord(2, 0, 0, 0, 2, 1, 0, 0, 0, 1, TRUE, suites),
                              WrittenSnapshot), TRUE)

FailingPayload(suites) ==
    PayloadValue(WithSnapshot(ResultsRecord(1, 1, 1, 1, 4, 0, 1, 1, 0, 2, FALSE, suites),
                              FailedSnapshot), TRUE)

ErroredPayload(suites) ==
    PayloadValue(ResultsRecord(0, 0, 0, 0, 0, 0, 1, 0, 1, 1, FALSE, suites), FALSE)

SamplePayloads(suites) ==
    {PassingPayload(suites), FailingPayload(suites), ErroredPayload(suites)}

\* ----------------------------------------------------------- the output log
\* What executeLuauTest reads back from its output file, by the facts its code
\* looks at: executeLuau's exit code, whether the result marker is in the log,
\* whether the text before the marker carries the "No tests found, exiting
\* with code" notice, and the payload (jestPayloadRaw): "json" decodes to a
\* resolved result, "unresolved" to one without resolveSuccess, "not json"
\* does not parse, "none" is no text at all.
OutputLog(code, marker, notice, payload) ==
    [code |-> code, marker |-> marker, notice |-> notice, payload |-> payload]

\* the log of a call that has not read its file yet
UnreadLog == OutputLog(0, FALSE, FALSE, "unread")

\* the logs the runtime is taken to leave behind
OutputLogs ==
    {OutputLog(1, FALSE, FALSE, "none"),
     OutputLog(0, FALSE, FALSE, "none"),
     OutputLog(0, TRUE, FALSE, "not json"),
     OutputLog(0, TRUE, FALSE, "unresolved"),
     OutputLog(0, TRUE, TRUE, "not json"),
     OutputLog(0, TRUE, TRUE, "json"),
     OutputLog(0, TRUE, FALSE, "json")}

\* as ExecuteLuauTestOutcome, but a payload that does not parse is taken as
\* "nothing ran" instead of being thrown on
OutcomeSwallowingParseErrors(log) ==
    IF log.code # 0 THEN "throw"
    ELSE IF ~log.marker THEN "throw"
    ELSE IF log.notice \/ log.payload = "not json" THEN "exit"
    ELSE IF log.payload \in {"none", "unresolved"} THEN "throw"
    ELSE "payload"

\* lines 1195-1312: what executeLuauTest does with the log, in the order of
\* its checks
ExecuteLuauTestOutcome(log) ==
    IF log.code # 0 THEN "throw"
    ELSE IF ~log.marker THEN "throw"
    ELSE IF log.notice THEN "exit"
    ELSE IF log.payload \in {"none", "not json", "unresolved"} THEN "throw"
    ELSE "payload"

\* ------------------------------------------------------------------ options
\* options.testPathPattern as the caller may give it: absent, or "(a\.t)$"
NoPattern == <<>>

UserPattern == <<"(", "a", "\\", ".", "t", ")", "$">>

\* output file names: luau_output_${randomHash}.log; 0 is the hash "debug",
\* 1..NumHashes are values of Math.random().toString(36).substring(2, 8)
DebugHash == 0

NoPath == -1

RandomHash(debug) == IF debug THEN {DebugHash} ELSE 1..NumHashes

\* `cwd` is used at lines 612 and 771 but no import or declaration binds it
\* in the module: evaluating it throws a ReferenceError.
CwdIsBound == FALSE

\* -------------------------------------------------------------------- state
VARIABLES
    options,        \* the caller's options: maxWorkers, debug, passWithNoTests, testPathPattern
    fsFiles,        \* the test files of the output tree, in discovery order
    pc,             \* where runJestRoblox is
    testSuites,     \* discoverTestFilesFromFilesystem's answer
    workers,        \* the shards: <<[id, suites]>>
    shard,          \* the executeLuauTest calls: <<[id, filter, status, out, selected, log, result, kept]>>
    invocations,    \* the filters executeLuau was called with, in call order
    lastSettled,    \* the shard whose call was fulfilled last (0: none yet)
    parsedResults,  \* parsedResults of runJestRoblox
    reporters,      \* reporterConfigs, each reporter by the methods it defines
    rIdx,           \* the reporter the reporting loop is at
    calls,          \* the reporter methods called so far, in order
    exitCode,       \* the value runJestRoblox resolves to (-1: none)
    coverageReport  \* the map generateCoverageReports was called with

reportVars == <<reporters, rIdx, calls, coverageReport>>

\* The ResultRewriter object (cache.js) and what its caller sees of it.
VARIABLES
    project,        \* the rojo project the rewriter was constructed for: its
                    \* sourcemap entries and the files on disk
    fileCache,      \* ResultRewriter.fileCache: path -> lines
    lastCall        \* the last method call on the rewriter: method, args, result

rwVars == <<project, fileCache, lastCall>>

vars == <<options, fsFiles, pc, testSuites, workers, shard, invocations, lastSettled,
          parsedResults, reporters, rIdx, calls, coverageReport, exitCode, project,
          fileCache, lastCall>>

runVars == <<options, fsFiles, pc, testSuites, workers, shard, invocations,
             lastSettled, parsedResults, reportVars, exitCode>>

\* no rewriter under observation / no call made yet
NoProject == [entries |-> <<>>, files |-> <<>>]

NoCall == [method |-> "none", args |-> <<>>, result |-> <<>>, again |-> 0]

\* const maxWorkers = options.maxWorkers || 1
EffectiveMaxWorkers == IF options.maxWorkers = 0 THEN 1 ELSE options.maxWorkers

\* as UseParallel, but one worker is taken as parallel too
UseParallelFromOne == EffectiveMaxWorkers >= 1

\* const useParallel = maxWorkers > 1
UseParallel == EffectiveMaxWorkers > 1

\* the suites the runtime runs for a filter: every test file of the place the
\* pattern matches (all of them without a pattern), in order; `by` is the
\* invocation that produced the suite object
RECURSIVE SelectSuites(_, _, _, _)
SelectSuites(files, pattern, by, i) ==
    IF i > Len(files) THEN <<>>
    ELSE (IF pattern = NoPattern \/ RegexTest(pattern, files[i])
          THEN <<[file |-> i, by |-> by, rewritten |-> FALSE]>> ELSE <<>>)
         \o SelectSuites(files, pattern, by, i + 1)

\* one executeLuauTest call up to its `await executeLuau(...)`; `selected`
\* is what the runtime runs for the call's filter
Invocation(id, filter, hash) ==
    [id |-> id, filter |-> filter, status |-> "running", out |-> hash,
     selected |-> SelectSuites(fsFiles, filter, id, 1), log |-> UnreadLog,
     result |-> NoValue, kept |-> FALSE]

\* The caller's options and the output tree a run starts with. The coverage
\* option is sampled with one or two workers, with debug and passWithNoTests
\* off and without a caller's pattern: the statements that handle coverage
\* look at none of these beyond whether the run is split.
Init ==
    /\ options \in [maxWorkers : 0..MaxWorkers, debug : BOOLEAN,
                    passWithNoTests : BOOLEAN,
                    testPathPattern : {NoPattern, UserPattern},
                    coverage : BOOLEAN]
    /\ options.coverage =>
          /\ options.maxWorkers \in {1, 2}
          /\ ~options.debug /\ ~options.passWithNoTests
          /\ options.testPathPattern = NoPattern
    /\ fsFiles \in {DiscoverTestFiles(n) : n \in 0..MaxFiles}
    /\ pc = "start"
    /\ testSuites = <<>>
    /\ workers = <<>>
    /\ shard = <<>>
    /\ invocations = <<>>
    /\ lastSettled = 0
    /\ parsedResults = NoValue
    /\ reporters = <<>>
    /\ rIdx = 0
    /\ calls = <<>>
    /\ coverageReport = NoCoverage
    /\ exitCode = -1
    /\ project = NoProject
    /\ fileCache = <<>>
    /\ lastCall = NoCall

\* ----------------------------------------------------------------- actions
\* lines 597-621: parallel mode, nothing discovered
StartEmpty ==
    /\ pc = "start"
    /\ UseParallel /\ options.testPathPattern = NoPattern
    /\ Len(fsFiles) = 0
    /\ testSuites' = fsFiles
    /\ IF CwdIsBound
       THEN /\ parsedResults' = PayloadValue(
                    ResultsRecord(0, 0, 0, 0, 0, 0, 0, 0, 0, 0, TRUE, <<>>), TRUE)
            /\ pc' = "collected"
       ELSE /\ parsedResults' = parsedResults
            /\ pc' = "rejected"
    /\ UNCHANGED <<options, fsFiles, workers, shard, invocations, lastSettled, exitCode, reportVars>>
    /\ UNCHANGED rwVars

\* lines 588-595, 622-624, 792-794: one unfiltered executeLuauTest call
StartSingle ==
    /\ pc = "start"
    /\ \/ ~(UseParallel /\ options.testPathPattern = NoPattern)
       \/ Len(fsFiles) = 1
    /\ testSuites' = IF UseParallel /\ options.testPathPattern = NoPattern
                     THEN fsFiles ELSE <<>>
    /\ \E h \in RandomHash(options.debug) :
           shard' = <<Invocation(0, options.testPathPattern, h)>>
    /\ invocations' = <<options.testPathPattern>>
    /\ pc' = "single"
    /\ UNCHANGED <<options, fsFiles, workers, lastSettled, parsedResults, exitCode, reportVars>>
    /\ UNCHANGED rwVars

\* lines 625-670: split, then workers.map(...) starts every shard's call
StartFanOut ==
    /\ pc = "start"
    /\ UseParallel /\ options.testPathPattern = NoPattern
    /\ Len(fsFiles) >= 2
    /\ testSuites' = fsFiles
    /\ workers' = SplitWorkers(fsFiles, EffectiveMaxWorkers)
    /\ \E hs \in [1..Len(workers') -> RandomHash(options.debug)] :
           shard' = [k \in 1..Len(workers') |->
                        Invocation(workers'[k].id,
                                   TestPathPattern(workers'[k].suites), hs[k])]
    /\ invocations' = [k \in 1..Len(workers') |-> TestPathPattern(workers'[k].suites)]
    /\ pc' = "fanout"
    /\ UNCHANGED <<options, fsFiles, lastSettled, parsedResults, exitCode, reportVars>>
    /\ UNCHANGED rwVars

\* Lines 1177-1193: whether the output file of a call is still on disk
\* when the call settles. A call that read its log has unlinked the file
\* unless options.debug is set; a call that never got to read it (the log
\* is unread) left the file if the runtime had created it before failing.
KeptFiles(k, log) ==
    IF log = UnreadLog THEN BOOLEAN
    ELSE {options.debug}

\* as AfterSettle, but a rejected call does not reject the run (allSettled)
AfterSettleWithoutAbort(k, log, status, value) ==
    /\ \E kept \in KeptFiles(k, log) :
           shard' = [shard EXCEPT ![k].status = status, ![k].out = NoPath,
                                  ![k].log = log, ![k].result = value,
                                  ![k].kept = kept]
    /\ IF status = "fulfilled" /\ pc = "single"
       THEN /\ pc' = "collected"
            /\ parsedResults' = value
       ELSE /\ pc' = pc
            /\ parsedResults' = parsedResults
    /\ lastSettled' = IF pc = "fanout" /\ status = "fulfilled" THEN k
                      ELSE IF pc = "fanout" THEN 0 ELSE lastSettled
    /\ UNCHANGED <<options, fsFiles, testSuites, workers, invocations, exitCode, reportVars>>
    /\ UNCHANGED rwVars

\* what the settling of call k does to runJestRoblox: a rejection rejects
\* Promise.all (or the single await); the single call's value is parsedResults
AfterSettle(k, log, status, value) ==
    /\ \E kept \in KeptFiles(k, log) :
           shard' = [shard EXCEPT ![k].status = status, ![k].out = NoPath,
                                  ![k].log = log, ![k].result = value,
                                  ![k].kept = kept]
    /\ IF status = "rejected"
       THEN /\ pc' = IF pc \in {"fanout", "single"} THEN "rejected" ELSE pc
            /\ parsedResults' = parsedResults
       ELSE IF pc = "single"
       THEN /\ pc' = "collected"
            /\ parsedResults' = value
       ELSE /\ pc' = pc
            /\ parsedResults' = parsedResults
    /\ lastSettled' = IF pc = "fanout" /\ status = "fulfilled" THEN k
                      ELSE IF pc = "fanout" THEN 0 ELSE lastSettled
    /\ UNCHANGED <<options, fsFiles, testSuites, workers, invocations, exitCode, reportVars>>
    /\ UNCHANGED rwVars

\* lines 1177-1199, 1228-1231, 1296-1310: the exit code is not 0, the marker
\* is missing or the payload cannot be used: executeLuauTest throws
SettleThrow(k) ==
    /\ k \in 1..Len(shard)
    /\ shard[k].status = "running"
    /\ \E log \in OutputLogs :
           /\ ExecuteLuauTestOutcome(log) = "throw"
           /\ AfterSettle(k, log, "rejected", NoValue)

\* lines 1177-1185: `await executeLuau(...)` rejects (the runtime timed out
\* or could not be started), or it left no file and readFileSync throws:
\* executeLuauTest throws before it reads or unlinks anything
SettleReject(k) ==
    /\ k \in 1..Len(shard)
    /\ shard[k].status = "running"
    /\ AfterSettle(k, UnreadLog, "rejected", NoValue)

\* lines 1284-1294: "No tests found, exiting with code"
SettleNoTests(k) ==
    /\ k \in 1..Len(shard)
    /\ shard[k].status = "running"
    /\ \E log \in OutputLogs :
           /\ ExecuteLuauTestOutcome(log) = "exit"
           /\ AfterSettle(k, log, "fulfilled",
                          ExitValue(IF options.passWithNoTests THEN 0 ELSE 1))

\* lines 1027-1031, 1097-1099: with the coverage option the runtime puts
\* the coverage map of what it ran into its answer
RuntimeCoverage(selected) ==
    IF options.coverage
    THEN CoverageMap({selected[i].file : i \in DOMAIN selected})
    ELSE NoCoverage

\* lines 1299-1312: the payload is returned
SettlePayload(k) ==
    /\ k \in 1..Len(shard)
    /\ shard[k].status = "running"
    /\ \E log \in OutputLogs :
           /\ ExecuteLuauTestOutcome(log) = "payload"
           /\ \E value \in SamplePayloads(shard[k].selected) :
                  AfterSettle(k, log, "fulfilled",
                              WithCoverage(value, RuntimeCoverage(shard[k].selected)))

\* --------------------------------------------------------------- the merge
WorkerResults == [k \in 1..Len(shard) |-> shard[k].result]

\* lines 672-703: the accumulators before the loop
MergeStart ==
    [results |-> WithSnapshot(ResultsRecord(0, 0, 0, 0, 0, 0, 0, 0, 0, 0, TRUE, <<>>),
                              CombinedSnapshotStart),
     hasGlobalConfig |-> FALSE]

\* the sums and the conjunction of one more worker result
Combined(a, r, ok, suites) ==
    WithSnapshot(
        ResultsRecord(
            a.numPassedTests + r.numPassedTests,
            a.numFailedTests + r.numFailedTests,
            a.numPendingTests + r.numPendingTests,
            a.numTodoTests + r.numTodoTests,
            a.numTotalTests + r.numTotalTests,
            a.numPassedTestSuites + r.numPassedTestSuites,
            a.numFailedTestSuites + r.numFailedTestSuites,
            a.numPendingTestSuites + r.numPendingTestSuites,
            a.numRuntimeErrorTestSuites + r.numRuntimeErrorTestSuites,
            a.numTotalTestSuites + r.numTotalTestSuites,
            ok, suites),
        AggregateIfPresent(a.snapshot, r.snapshot))

\* as MergeOne, but a worker that ran no test is skipped
MergeOneSkippingEmpty(acc, result) ==
    LET a == acc.results
        r == result.results
    IN  [results |->
            IF result.kind = "payload" /\ r.numTotalTests > 0
            THEN Combined(a, r, a.success /\ r.success, a.testResults \o r.testResults)
            ELSE a,
         hasGlobalConfig |-> acc.hasGlobalConfig \/ result.hasGlobalConfig]

\* as MergeOne, but the last worker's success flag wins
MergeOneLastSuccess(acc, result) ==
    LET a == acc.results
        r == result.results
    IN  [results |->
            IF result.kind = "payload"
            THEN Combined(a, r, r.success, a.testResults \o r.testResults)
            ELSE a,
         hasGlobalConfig |-> acc.hasGlobalConfig \/ result.hasGlobalConfig]

\* as MergeOne, but the suites are put in front of the collected ones
MergeOnePrepending(acc, result) ==
    LET a == acc.results
        r == result.results
    IN  [results |->
            IF result.kind = "payload"
            THEN Combined(a, r, a.success /\ r.success, r.testResults \o a.testResults)
            ELSE a,
         hasGlobalConfig |-> acc.hasGlobalConfig \/ result.hasGlobalConfig]

\* lines 706-767: the loop body for one worker result
MergeOne(acc, result) ==
    LET a == acc.results
        r == result.results
    IN  [results |->
            IF result.kind = "payload"
            THEN WithSnapshot(
                    ResultsRecord(
                        a.numPassedTests + r.numPassedTests,
                        a.numFailedTests + r.numFailedTests,
                        a.numPendingTests + r.numPendingTests,
                        a.numTodoTests + r.numTodoTests,
                        a.numTotalTests + r.numTotalTests,
                        a.numPassedTestSuites + r.numPassedTestSuites,
                        a.numFailedTestSuites + r.numFailedTestSuites,
                        a.numPendingTestSuites + r.numPendingTestSuites,
                        a.numRuntimeErrorTestSuites + r.numRuntimeErrorTestSuites,
                        a.numTotalTestSuites + r.numTotalTestSuites,
                        a.success /\ r.success,
                        a.testResults \o r.testResults),
                    AggregateIfPresent(a.snapshot, r.snapshot))
            ELSE a,
         hasGlobalConfig |-> acc.hasGlobalConfig \/ result.hasGlobalConfig]

\* lines 705-768: for (const result of workerResults)
RECURSIVE MergeLoop(_, _, _)
MergeLoop(workerResults, k, acc) ==
    IF k > Len(workerResults) THEN acc
    ELSE MergeLoop(workerResults, k + 1, MergeOne(acc, workerResults[k]))

MergeWorkerResults(workerResults) == MergeLoop(workerResults, 1, MergeStart)

\* lines 651, 672-790: Promise.all resolved; combine and build parsedResults
\* (`globalConfig || { rootDir: cwd }` evaluates cwd when no worker gave one)
Merge ==
    /\ pc = "fanout"
    /\ \A k \in 1..Len(shard) : shard[k].status = "fulfilled"
    /\ LET m == MergeWorkerResults(WorkerResults)
       IN  IF m.hasGlobalConfig \/ CwdIsBound
           THEN /\ parsedResults' = PayloadValue(m.results, TRUE)
                /\ pc' = "collected"
           ELSE /\ parsedResults' = parsedResults
                /\ pc' = "rejected"
    /\ UNCHANGED <<options, fsFiles, testSuites, workers, shard, invocations, lastSettled, exitCode, reportVars>>
    /\ UNCHANGED rwVars

\* ------------------------------------------------------------ after the run
\* line 796: if (parsedResults.exit !== undefined) return parsedResults.exit
ReturnExit ==
    /\ pc = "collected"
    /\ parsedResults.kind = "exit"
    /\ exitCode' = parsedResults.exit
    /\ pc' = "done"
    /\ UNCHANGED <<options, fsFiles, testSuites, workers, shard, invocations, lastSettled, parsedResults, reportVars>>
    /\ UNCHANGED rwVars

\* rewriter.rewriteParsedResults: every suite is rewritten in place
RewriteParsedResults(results) ==
    [results EXCEPT !.testResults =
        [k \in 1..Len(results.testResults) |->
            [results.testResults[k] EXCEPT !.rewritten = TRUE]]]

\* lines 800-805: the coverage map goes through rewriteCoverageData if
\* there is one
RewriteCoverage(coverage) ==
    IF coverage = NoCoverage THEN coverage
    ELSE [coverage EXCEPT !.rewrites = @ + 1]

\* lines 807-809
PassWithNoTests(results) ==
    IF options.passWithNoTests /\ results.numTotalTests = 0
    THEN [results EXCEPT !.success = TRUE]
    ELSE results

\* A reporter, by the lifecycle methods it defines.
Reporter(rs, tr, ts, rc) ==
    [onRunStart |-> rs, onTestResult |-> tr, onTestStart |-> ts, onRunComplete |-> rc]

\* all four methods (as the built-in reporters have)
DefaultLike == Reporter(TRUE, TRUE, TRUE, TRUE)

\* no onTestResult: onTestStart is the fallback
LegacyLike == Reporter(TRUE, FALSE, TRUE, TRUE)

ResultOnly == Reporter(FALSE, TRUE, FALSE, FALSE)

Inert == Reporter(FALSE, FALSE, FALSE, FALSE)

\* lines 824-879: reporterConfigs is the two default reporters, or the
\* configured ones that loaded (a module that fails to load is skipped, so
\* the list may be empty)
ReporterSetups ==
    {<<>>, <<DefaultLike, DefaultLike>>, <<LegacyLike, ResultOnly>>, <<Inert>>}

\* lines 798-879: rewrite, passWithNoTests, globalConfig, reporterConfigs
Prepare ==
    /\ pc = "collected"
    /\ parsedResults.kind = "payload"
    /\ parsedResults' = [parsedResults EXCEPT
            !.results = PassWithNoTests(RewriteParsedResults(parsedResults.results)),
            !.coverage = RewriteCoverage(@)]
    /\ reporters' \in ReporterSetups
    /\ rIdx' = 1
    /\ calls' = calls
    /\ coverageReport' = coverageReport
    /\ pc' = "reporting"
    /\ lastSettled' = 0
    /\ UNCHANGED <<options, fsFiles, testSuites, workers, shard, invocations, exitCode>>
    /\ UNCHANGED rwVars

Call(r, method, suite) == [reporter |-> r, method |-> method, suite |-> suite]

\* as PerSuiteCalls, but onTestStart is called whenever it is defined
PerSuiteCallsStartAlways(reporter, r, i) ==
    (IF reporter.onTestStart THEN <<Call(r, "onTestStart", i)>> ELSE <<>>)
    \o (IF reporter.onTestResult THEN <<Call(r, "onTestResult", i)>> ELSE <<>>)

\* lines 917-927: onTestResult, else onTestStart, if it is a function
PerSuiteCalls(reporter, r, i) ==
    IF reporter.onTestResult THEN <<Call(r, "onTestResult", i)>>
    ELSE IF reporter.onTestStart THEN <<Call(r, "onTestStart", i)>>
    ELSE <<>>

\* lines 916-928: for (const testResult of parsedResults.results.testResults)
RECURSIVE SuiteLoop(_, _, _, _)
SuiteLoop(reporter, r, i, n) ==
    IF i > n THEN <<>>
    ELSE PerSuiteCalls(reporter, r, i) \o SuiteLoop(reporter, r, i + 1, n)

\* lines 881-937: one iteration of the reporter loop: new Reporter(...),
\* onRunStart if it is a function, the per-suite loop, onRunComplete if it
\* is a function
ReportOne ==
    /\ pc = "reporting"
    /\ rIdx <= Len(reporters)
    /\ calls' = calls
                \o (IF reporters[rIdx].onRunStart
                    THEN <<Call(rIdx, "onRunStart", 0)>> ELSE <<>>)
                \o SuiteLoop(reporters[rIdx], rIdx, 1,
                             Len(parsedResults.results.testResults))
                \o (IF reporters[rIdx].onRunComplete
                    THEN <<Call(rIdx, "onRunComplete", 0)>> ELSE <<>>)
    /\ rIdx' = rIdx + 1
    /\ UNCHANGED <<options, fsFiles, pc, testSuites, workers, shard, invocations,
                   lastSettled, parsedResults, reporters, exitCode, coverageReport>>
    /\ UNCHANGED rwVars

\* lines 939-942: generateCoverageReports is called with the coverage map
\* if there is one
CoverageReported ==
    IF parsedResults.coverage # NoCoverage THEN parsedResults.coverage
    ELSE coverageReport

\* as Finish, but the exit code is taken from the failed-test count
FinishByFailedTests ==
    /\ pc = "reporting"
    /\ rIdx > Len(reporters)
    /\ exitCode' = IF parsedResults.results.numFailedTests = 0 THEN 0 ELSE 1
    /\ coverageReport' = CoverageReported
    /\ pc' = "done"
    /\ UNCHANGED <<options, fsFiles, testSuites, workers, shard, invocations, lastSettled,
                   parsedResults, reporters, rIdx, calls>>
    /\ UNCHANGED rwVars

\* lines 939-959: after the last reporter; with options.json the results are
\* printed first; either way the exit code is success ? 0 : 1 (parsedResults
\* has no exit signal here: line 796 returned on one)
Finish ==
    /\ pc = "reporting"
    /\ rIdx > Len(reporters)
    /\ \E json \in BOOLEAN :
           exitCode' = IF json /\ parsedResults.kind = "exit"
                       THEN parsedResults.exit
                       ELSE IF parsedResults.results.success THEN 0 ELSE 1
    /\ coverageReport' = CoverageReported
    /\ pc' = "done"
    /\ UNCHANGED <<options, fsFiles, testSuites, workers, shard, invocations, lastSettled,
                   parsedResults, reporters, rIdx, calls>>
    /\ UNCHANGED rwVars

Next ==
    \/ StartEmpty
    \/ StartSingle
    \/ StartFanOut
    \/ \E k \in 1..MaxWorkers : SettleThrow(k)
    \/ \E k \in 1..MaxWorkers : SettleReject(k)
    \/ \E k \in 1..MaxWorkers : SettleNoTests(k)
    \/ \E k \in 1..MaxWorkers : SettlePayload(k)
    \/ Merge
    \/ ReturnExit
    \/ Prepare
    \/ ReportOne
    \/ Finish

Spec == Init /\ [][Next]_vars

\* ======================================================== the ResultRewriter
\* Texts and paths are sequences of characters.
\* ------------------------------------------------------------- characters
Digits == {"0", "1", "2", "3", "4", "5", "6", "7", "8", "9"}

Letters ==
    {"a", "b", "c", "d", "e", "f", "g", "h", "i", "j", "k", "l", "m", "n", "o",
     "p", "q", "r", "s", "t", "u", "v", "w", "x", "y", "z",
     "A", "B", "C", "D", "E", "F", "G", "H", "I", "J", "K", "L", "M", "N", "O",
     "P", "Q", "R", "S", "T", "U", "V", "W", "X", "Y", "Z"}

\* \w
WordChars == Letters \cup Digits \cup {"_"}

\* \s
Whitespace == {" ", "\t", "\n"}

\* [\w@.\/\\-] and [\/.\\] of the frame pattern
PathChars == WordChars \cup {"@", ".", "/", "\\", "-"}

PathSeparators == {"/", ".", "\\"}

\* Body(value), with value computed once however often Body refers to it
With(value, Body(_)) == CHOOSE result \in {Body(v) : v \in {value}} : TRUE

\* ---------------------------------------------------------------- strings
\* s.startsWith(p, i - 1)
StartsWithAt(s, i, p) ==
    i + Len(p) - 1 <= Len(s) /\ SubSeq(s, i, i + Len(p) - 1) = p

EndsWith(s, p) ==
    Len(p) <= Len(s) /\ SubSeq(s, Len(s) - Len(p) + 1, Len(s)) = p

\* s.indexOf(p, i - 1) + 1 (0: not found)
RECURSIVE IndexOfFrom(_, _, _)
IndexOfFrom(s, p, i) ==
    IF i + Len(p) - 1 > Len(s) THEN 0
    ELSE IF StartsWithAt(s, i, p) THEN i
    ELSE IndexOfFrom(s, p, i + 1)

Includes(s, p) == IndexOfFrom(s, p, 1) # 0

\* s.slice(i - 1)
SliceFrom(s, i) == SubSeq(s, i, Len(s))

\* s.split(sep).join(repl) from position i on, for a non-empty sep
RECURSIVE SplitJoinFrom(_, _, _, _)
SplitJoinFrom(s, sep, repl, i) ==
    IF i > Len(s) THEN <<>>
    ELSE IF StartsWithAt(s, i, sep)
         THEN repl \o SplitJoinFrom(s, sep, repl, i + Len(sep))
         ELSE <<s[i]>> \o SplitJoinFrom(s, sep, repl, i + 1)

SplitJoin(s, sep, repl) == SplitJoinFrom(s, sep, repl, 1)

\* s.replace(/c/g, repl) for a one-character pattern
ReplaceChar(s, c, repl) == SplitJoin(s, <<c>>, repl)

RECURSIVE TrimStart(_)
TrimStart(s) ==
    IF s # <<>> /\ Head(s) \in Whitespace THEN TrimStart(Tail(s)) ELSE s

RECURSIVE TrimEnd(_)
TrimEnd(s) ==
    IF s # <<>> /\ s[Len(s)] \in Whitespace
    THEN TrimEnd(SubSeq(s, 1, Len(s) - 1)) ELSE s

\* s.trim()
Trim(s) == TrimEnd(TrimStart(s))

\* s.replace(/\s+/g, "")
StripWhitespace(s) == SelectSeq(s, LAMBDA c : c \notin Whitespace)

\* text.split(/\r?\n/) (no carriage returns in the modelled texts)
RECURSIVE SplitLinesFrom(_, _, _)
SplitLinesFrom(s, i, cur) ==
    IF i > Len(s) THEN <<cur>>
    ELSE IF s[i] = "\n" THEN <<cur>> \o SplitLinesFrom(s, i + 1, <<>>)
    ELSE SplitLinesFrom(s, i + 1, Append(cur, s[i]))

SplitLines(s) == SplitLinesFrom(s, 1, <<>>)

DigitChars == <<"0", "1", "2", "3", "4", "5", "6", "7", "8", "9">>

DigitValue(c) == (CHOOSE d \in 1..10 : DigitChars[d] = c) - 1

\* Number(digits)
RECURSIVE ToNumberFrom(_, _, _)
ToNumberFrom(ds, i, acc) ==
    IF i > Len(ds) THEN acc
    ELSE ToNumberFrom(ds, i + 1, acc * 10 + DigitValue(ds[i]))

ToNumber(ds) == ToNumberFrom(ds, 1, 0)

\* String(n) for n >= 0
RECURSIVE NumToString(_)
NumToString(n) ==
    IF n < 10 THEN <<DigitChars[n + 1]>>
    ELSE NumToString(n \div 10) \o <<DigitChars[(n % 10) + 1]>>

\* the first index >= i of s whose character is not in class (Len(s) + 1: none)
RECURSIVE ClassRunEnd(_, _, _)
ClassRunEnd(s, i, class) ==
    IF i > Len(s) \/ s[i] \notin class THEN i
    ELSE ClassRunEnd(s, i + 1, class)


\* ------------------------------------------------------------------ paths
\* value.replace(/\\/g, "/")
NormalizeSlashes(p) == ReplaceChar(p, "\\", <<"/">>)

\* path.isAbsolute(p) on a POSIX host
IsAbsolute(p) == p # <<>> /\ p[1] = "/"

\* path.join(a, b) for a directory a without a trailing separator and a
\* non-empty b without "." or ".." segments: the two are concatenated, also
\* when b is itself absolute
PathJoin(a, b) == IF IsAbsolute(b) THEN a \o b ELSE a \o <<"/">> \o b

\* rojoProject.root; the process runs in it, so it is process.cwd() as well
ProjectRoot == <<"/", "r">>

\* path.resolve(p)
PathResolve(p) == IF IsAbsolute(p) THEN p ELSE PathJoin(ProjectRoot, p)

\* path.relative(from, to) for absolute paths and a one-segment from
PathRelative(from, to) ==
    IF to = from THEN <<>>
    ELSE IF StartsWithAt(to, 1, from \o <<"/">>)
         THEN SliceFrom(to, Len(from) + 2)
         ELSE <<".", ".">> \o to

\* candidate.replace(/\.(lua|luau)$/, ext)
ReplaceLuaExtension(p, ext) ==
    IF EndsWith(p, <<".", "l", "u", "a", "u">>) THEN SubSeq(p, 1, Len(p) - 5) \o ext
    ELSE IF EndsWith(p, <<".", "l", "u", "a">>) THEN SubSeq(p, 1, Len(p) - 4) \o ext
    ELSE p

\* ---------------------------------------------------------------- project
\* a path that is not set (undefined)
Undefined == <<"undefined">>

\* The source file the constructor finds for a compiled file: the file of the
\* same relative path under rootDir ("src") for a file under outDir ("out"),
\* as such or with the .ts or .tsx extension (no sample file is named init.*).
SourcePathOf(files, luauPath) ==
    LET absoluteLuauPath == PathJoin(ProjectRoot, luauPath)
        absoluteOutDir == PathJoin(ProjectRoot, <<"o", "u", "t">>)
        absoluteRootDir == PathJoin(ProjectRoot, <<"s", "r", "c">>)
        candidateSource ==
            PathJoin(absoluteRootDir, PathRelative(absoluteOutDir, absoluteLuauPath))
        withTs == ReplaceLuaExtension(candidateSource, <<".", "t", "s">>)
        withTsx == ReplaceLuaExtension(candidateSource, <<".", "t", "s", "x">>)
    IN  IF ~StartsWithAt(absoluteLuauPath, 1, absoluteOutDir) THEN Undefined
        ELSE IF candidateSource \in DOMAIN files THEN candidateSource
        ELSE IF withTs \in DOMAIN files THEN withTs
        ELSE IF withTsx \in DOMAIN files THEN withTsx
        ELSE Undefined

\* the entry the constructor stores for one sourcemap node
ModuleEntry(files, node) ==
    [datamodelPath |-> node[1],
     luauPath |-> node[2],
     absoluteLuauPath |-> PathJoin(ProjectRoot, node[2]),
     sourcePath |-> SourcePathOf(files, node[2])]

\* new ResultRewriter({rojoProject, compilerOptions}): modulePathMap in
\* insertion order, and the files on disk (path -> text)
Rewriter(sourcemap, files) ==
    [entries |-> [i \in DOMAIN sourcemap |-> ModuleEntry(files, sourcemap[i])],
     files |-> files]

\* sample file texts
ThreeLines == <<"l", "1", "\n", "l", "2", "\n", "l", "3">>

CompiledText == <<"\n", "a", "\t", "b", "\n", " ", " ", "x", "\n", "a", " ", "b", "\n", "q">>

SourceText == <<"z", "a", "b", "\n", "\n", " ", " ", "a", "\t", "b", "\n", "x", " ", "\n", "e", "x", "p", "e", "c", "t", "(", "v", ")", ".", "t", "o", "B", "e", "(", "1", ")">>

\* A roblox-ts project whose compiled and source files have the same lines,
\* with two test modules of the same name (one not compiled yet) and one
\* Luau-only module.
FixtureProject ==
    Rewriter(<<<<<<"A", ".", "B", ".", "t", "e", "s", "t">>, <<"o", "u", "t", "/", "t", "e", "s", "t", ".", "l", "u", "a", "u">>>>,
               <<<<"A", ".", "C", ".", "t", "e", "s", "t">>, <<"o", "u", "t", "/", "c", "/", "t", "e", "s", "t", ".", "l", "u", "a", "u">>>>,
               <<<<"A", ".", "l", "i", "b">>, <<"i", "n", "c", "/", "l", "i", "b", ".", "l", "u", "a">>>>>>,
             [p \in {<<"/", "r", "/", "o", "u", "t", "/", "t", "e", "s", "t", ".", "l", "u", "a", "u">>, <<"/", "r", "/", "s", "r", "c", "/", "t", "e", "s", "t", ".", "t", "s">>,
                     <<"/", "r", "/", "i", "n", "c", "/", "l", "i", "b", ".", "l", "u", "a">>} |-> ThreeLines])

\* A roblox-ts project whose source file differs from the compiled one.
DriftedProject ==
    Rewriter(<<<<<<"A", ".", "B", ".", "t", "e", "s", "t">>, <<"o", "u", "t", "/", "t", "e", "s", "t", ".", "l", "u", "a", "u">>>>>>,
             [p \in {<<"/", "r", "/", "o", "u", "t", "/", "t", "e", "s", "t", ".", "l", "u", "a", "u">>, <<"/", "r", "/", "s", "r", "c", "/", "t", "e", "s", "t", ".", "t", "s">>} |->
                 IF p = <<"/", "r", "/", "o", "u", "t", "/", "t", "e", "s", "t", ".", "l", "u", "a", "u">> THEN CompiledText ELSE SourceText])

Projects == {FixtureProject, DriftedProject}

\* no entry (the maps' get returned undefined)
NoEntry ==
    [datamodelPath |-> Undefined, luauPath |-> Undefined,
     absoluteLuauPath |-> Undefined, sourcePath |-> Undefined]

\* this.modulePathMap.get(key)
ModulePathMapGet(key) ==
    LET hits == {i \in DOMAIN project.entries :
                    project.entries[i].datamodelPath = key}
    IN  IF hits = {} THEN NoEntry ELSE project.entries[CHOOSE i \in hits : TRUE]

\* this.luauPathMap.get(key): the last entry stored under the compiled path
LuauPathMapGet(key) ==
    LET hits == {i \in DOMAIN project.entries :
                    NormalizeSlashes(project.entries[i].luauPath) = key}
    IN  IF hits = {} THEN NoEntry
        ELSE project.entries[CHOOSE i \in hits : \A j \in hits : j <= i]

\* ------------------------------------------------------- lines and frames
\* fs.existsSync(filePath), for a path that is set
ExistsSync(filePath) == filePath # Undefined /\ filePath \in DOMAIN project.files

\* readLines(filePath) with the cache `cache`: the cached array if there is
\* one, the lines on disk otherwise
ReadLines(cache, filePath) ==
    IF ~ExistsSync(filePath) THEN <<>>
    ELSE IF filePath \in DOMAIN cache THEN cache[filePath]
    ELSE SplitLines(project.files[filePath])

\* the cache after readLines was called for each of paths
CacheAfterReading(cache, paths) ==
    [p \in DOMAIN cache \cup {q \in paths : ExistsSync(q)} |->
        ReadLines(cache, p)]

\* array.findIndex(pred) + 1 for the set of indices satisfying pred
FindIndex(hits) ==
    IF hits = {} THEN 0 ELSE CHOOSE i \in hits : \A j \in hits : i <= j

\* lines[n - 1] || ""
LineText(lines, n) == IF n \in 1..Len(lines) THEN lines[n] ELSE <<>>

\* findSourceLine for the lines readLines returned for the two files
SourceLineIn(luauLines, sourceLines, target, luauLineNumber) ==
    LET exactIndex ==
            FindIndex({i \in 1..Len(sourceLines) : Trim(sourceLines[i]) = target})
        looseIndex ==
            FindIndex({i \in 1..Len(sourceLines) :
                Includes(StripWhitespace(sourceLines[i]), StripWhitespace(target))})
    IN  IF luauLines = <<>> \/ sourceLines = <<>> THEN luauLineNumber
        ELSE IF target = <<>> THEN luauLineNumber
        ELSE IF exactIndex > 0 THEN exactIndex
        ELSE IF looseIndex > 0 THEN looseIndex
        ELSE luauLineNumber

FindSourceLine(cache, luauPath, sourcePath, luauLineNumber) ==
    With(ReadLines(cache, luauPath), LAMBDA luauLines :
    With(ReadLines(cache, sourcePath), LAMBDA sourceLines :
    With(Trim(LineText(luauLines, luauLineNumber)), LAMBDA target :
        SourceLineIn(luauLines, sourceLines, target, luauLineNumber))))

\* /\bexpect\s*\(/ matches at index i
ExpectAt(s, i) ==
    /\ StartsWithAt(s, i, <<"e", "x", "p", "e", "c", "t">>)
    /\ i = 1 \/ s[i - 1] \notin WordChars
    /\ LET k == ClassRunEnd(s, i + 6, Whitespace)
       IN  k <= Len(s) /\ s[k] = "("

\* /\.\s*([A-Za-z_$][\w$]*)\s*(?=\()/ matches at index m
MatcherAt(s, m) ==
    /\ s[m] = "."
    /\ LET k == ClassRunEnd(s, m + 1, Whitespace)
           e == ClassRunEnd(s, k, WordChars \cup {"$"})
           p == ClassRunEnd(s, e, Whitespace)
       IN  /\ k <= Len(s) /\ s[k] \in Letters \cup {"_", "$"}
           /\ p <= Len(s) /\ s[p] = "("

FindExpectationColumn(lineText) ==
    LET expectIndex == FindIndex({i \in 1..Len(lineText) : ExpectAt(lineText, i)})
        matchers == {m \in expectIndex..Len(lineText) : MatcherAt(lineText, m)}
        matcher == CHOOSE m \in matchers : \A o \in matchers : o <= m
    IN  IF expectIndex = 0 THEN 1
        ELSE IF matchers = {} THEN expectIndex
        ELSE ClassRunEnd(lineText, matcher + 1, Whitespace)

\* FormatPath(filePath) for an absolute path (process.cwd() is the root)
FormatPath(filePath) ==
    LET relativePath == PathRelative(ProjectRoot, filePath)
    IN  NormalizeSlashes(IF relativePath = <<>> THEN filePath ELSE relativePath)

\* the entry both mapDatamodelFrame and datamodelPathToSourcePath look up:
\* by address, by compiled path, by compiled path relative to the root
LookupEntry(datamodelPath) ==
    LET normalizedPath == NormalizeSlashes(datamodelPath)
        candidateAbsolute ==
            IF IsAbsolute(datamodelPath) THEN PathResolve(datamodelPath)
            ELSE PathJoin(ProjectRoot, normalizedPath)
        relativeToRoot ==
            NormalizeSlashes(PathRelative(ProjectRoot, candidateAbsolute))
    IN  IF ModulePathMapGet(datamodelPath) # NoEntry
        THEN ModulePathMapGet(datamodelPath)
        ELSE IF ModulePathMapGet(normalizedPath) # NoEntry
        THEN ModulePathMapGet(normalizedPath)
        ELSE IF LuauPathMapGet(normalizedPath) # NoEntry
        THEN LuauPathMapGet(normalizedPath)
        ELSE LuauPathMapGet(relativeToRoot)

\* entry.sourcePath ?? entry.absoluteLuauPath
SourceForColumn(entry) ==
    IF entry.sourcePath # Undefined THEN entry.sourcePath
    ELSE entry.absoluteLuauPath

\* no mapped frame (mapDatamodelFrame returned undefined)
NoFrame == [line |-> 0, column |-> 0, file |-> Undefined]

\* the frame mapDatamodelFrame returns for the entry it found
FrameOfEntry(cache, entry, lineNumber) ==
    With(FindSourceLine(cache, entry.absoluteLuauPath, SourceForColumn(entry),
                        lineNumber),
         LAMBDA mappedLine :
            [line |-> mappedLine,
             column |-> FindExpectationColumn(
                 LineText(ReadLines(cache, SourceForColumn(entry)), mappedLine)),
             file |-> SourceForColumn(entry)])

MapDatamodelFrame(cache, datamodelPath, lineNumber) ==
    With(LookupEntry(datamodelPath), LAMBDA entry :
        IF entry = NoEntry THEN NoFrame
        ELSE FrameOfEntry(cache, entry, lineNumber))

\* the files mapDatamodelFrame reads for a frame
FilesOfFrame(datamodelPath) ==
    LET entry == LookupEntry(datamodelPath)
    IN  IF entry = NoEntry THEN {}
        ELSE {entry.absoluteLuauPath, SourceForColumn(entry)}

\* ------------------------------------------------------ rewriteStackString
\* no match (exec returned null)
NoMatch == [index |-> 0, filePart |-> <<>>, lineStr |-> <<>>, lastIndex |-> 0]

\* The match of /((?:[\w@.\/\\-]*[\/.\\][\w@.\/\\-]+)):(\d+)(?::(\d+))?/
\* that starts at index i. No path character is a colon, so the path group
\* is the whole run of path characters from i; it needs a separator that is
\* not its last character. The line and column digits are taken greedily.
FrameAt(s, i) ==
    LET j == ClassRunEnd(s, i, PathChars)
        d == ClassRunEnd(s, j + 1, Digits)
        c == ClassRunEnd(s, d + 1, Digits)
    IN  IF /\ j < Len(s) /\ s[j] = ":" /\ s[j + 1] \in Digits
           /\ \E p \in i..(j - 2) : s[p] \in PathSeparators
        THEN [index |-> i,
              filePart |-> SubSeq(s, i, j - 1),
              lineStr |-> SubSeq(s, j + 1, d - 1),
              lastIndex |-> IF d < Len(s) /\ s[d] = ":" /\ c > d + 1
                            THEN c ELSE d]
        ELSE NoMatch

\* pattern.exec(s) with pattern.lastIndex = from - 1: the leftmost match.
\* Where the pattern fails at the start of a run of path characters it fails
\* at every later index of that run, so the search goes on behind the run.
RECURSIVE Exec(_, _)
Exec(s, from) ==
    IF from > Len(s) THEN NoMatch
    ELSE IF s[from] \notin PathChars THEN Exec(s, from + 1)
    ELSE IF FrameAt(s, from) # NoMatch THEN FrameAt(s, from)
    ELSE Exec(s, ClassRunEnd(s, from, PathChars))

\* match[0]
FullMatch(s, match) == SubSeq(s, match.index, match.lastIndex - 1)

\* `${filePath}:${mapped.line}:${mapped.column}`
FrameText(filePath, mapped) ==
    filePath \o <<":">> \o NumToString(mapped.line)
             \o <<":">> \o NumToString(mapped.column)

\* the text after the loop body of rewriteStackString ran for a match
\* whose text was not processed before
Replaced(rewritten, fullMatch, mapped, absolutePaths) ==
    IF mapped = NoFrame THEN rewritten
    ELSE SplitJoin(rewritten, fullMatch,
                   FrameText(IF absolutePaths THEN PathResolve(mapped.file)
                             ELSE FormatPath(mapped.file), mapped))

\* The loop of rewriteStackString from pattern.lastIndex = from - 1 on. A
\* file read on the way enters the cache with the lines it has on disk, so
\* every frame of the call maps as under the cache the call started with.
RECURSIVE RewriteFrames(_, _, _, _, _, _)
RewriteFrames(cache, value, absolutePaths, from, processed, rewritten) ==
    With(Exec(value, from), LAMBDA match :
        IF match = NoMatch THEN rewritten
        ELSE IF FullMatch(value, match) \in processed
        THEN RewriteFrames(cache, value, absolutePaths, match.lastIndex,
                           processed, rewritten)
        ELSE With(MapDatamodelFrame(cache, match.filePart, ToNumber(match.lineStr)),
                  LAMBDA mapped :
                      With(Replaced(rewritten, FullMatch(value, match), mapped,
                                    absolutePaths),
                           LAMBDA replaced :
                               RewriteFrames(cache, value, absolutePaths,
                                             match.lastIndex,
                                             processed \cup {FullMatch(value, match)},
                                             replaced))))

RewriteStackString(cache, value, absolutePaths) ==
    RewriteFrames(cache, value, absolutePaths, 1, {}, value)

\* the path groups of all matches of the frame pattern in s from `from` on
RECURSIVE FileParts(_, _)
FileParts(s, from) ==
    LET match == Exec(s, from)
    IN  IF match = NoMatch THEN {}
        ELSE {match.filePart} \cup FileParts(s, match.lastIndex)

\* the files rewriteStackString reads for a text
FilesOfText(value) ==
    UNION {FilesOfFrame(filePart) : filePart \in FileParts(value, 1)}

\* ----------------------------------------------------------- buildCodeFrame
\* the array readLines returned after the tabs of every line were replaced
\* in place: lines[idx] = lines[idx].replace(/\t/g, "    ")
WithoutTabs(lines) ==
    [idx \in DOMAIN lines |-> ReplaceChar(lines[idx], "\t", <<" ", " ", " ", " ">>)]

\* s.padStart(width, " ")
RECURSIVE PadStart(_, _)
PadStart(s, width) ==
    IF Len(s) >= width THEN s ELSE PadStart(<<" ">> \o s, width)

\* one row of the frame; chalk and highlightCode add colour codes only, and
\* none when colours are off
FrameRow(lines, i, line, digitWidth) ==
    <<" ", " ", " ", " ">> \o <<IF i = line THEN ">" ELSE " ", " ">>
             \o PadStart(NumToString(i), digitWidth) \o <<" ", "|">>
             \o <<" ">> \o LineText(lines, i)

RECURSIVE JoinLines(_)
JoinLines(rows) ==
    IF rows = <<>> THEN <<>>
    ELSE IF Len(rows) = 1 THEN rows[1]
    ELSE rows[1] \o <<"\n">> \o JoinLines(Tail(rows))

\* Math.max(1, line - context)
FrameStart(line, context) == IF line - context > 1 THEN line - context ELSE 1

\* Math.min(lines.length, line + context + 1)
FrameEnd(lines, line, context) ==
    IF line + context + 1 < Len(lines) THEN line + context + 1 ELSE Len(lines)

\* buildCodeFrame(absPath, line, column, context) (Undefined: no such file)
BuildCodeFrame(cache, absPath, line, context) ==
    LET lines == WithoutTabs(ReadLines(cache, absPath))
        start == FrameStart(line, context)
        end == FrameEnd(lines, line, context)
        digitWidth == Len(NumToString(end))
    IN  IF lines = <<>> THEN Undefined
        ELSE JoinLines([k \in 1..(IF end >= start THEN end - start + 1 ELSE 0) |->
                           FrameRow(lines, start + k - 1, line, digitWidth)])

\* the cache after buildCodeFrame(absPath, ...)
CacheAfterFrame(cache, absPath) ==
    [p \in DOMAIN cache \cup {q \in {absPath} : ExistsSync(q)} |->
        IF p = absPath THEN WithoutTabs(ReadLines(cache, p)) ELSE cache[p]]

\* ------------------------------------------------ datamodelPathToSourcePath
\* testFilePath.replace(/\.(lua|luau)$/, "").replace(/\\/g, ".").replace(/\//g, ".")
MatchingPath(testFilePath) ==
    ReplaceChar(ReplaceChar(ReplaceLuaExtension(testFilePath, <<>>),
                            "\\", <<".">>), "/", <<".">>)

\* paths.sourcePath ?? paths.luauPath
PathOfEntry(entry) ==
    IF entry.sourcePath # Undefined THEN entry.sourcePath ELSE entry.luauPath

\* the matches array: the entries whose address ends with the matching path
Matches(testFilePath) ==
    SelectSeq(project.entries,
              LAMBDA e : EndsWith(e.datamodelPath, MatchingPath(testFilePath)))

\* a variant that takes the first of several matching entries
FirstMatchingSourcePath(testFilePath) ==
    IF testFilePath = <<>> THEN testFilePath
    ELSE IF LookupEntry(testFilePath).sourcePath # Undefined
    THEN LookupEntry(testFilePath).sourcePath
    ELSE IF Len(Matches(testFilePath)) >= 1
    THEN PathOfEntry(Matches(testFilePath)[1])
    ELSE PathJoin(ProjectRoot, testFilePath)

DatamodelPathToSourcePath(testFilePath) ==
    IF testFilePath = <<>> THEN testFilePath
    ELSE IF LookupEntry(testFilePath).sourcePath # Undefined
    THEN LookupEntry(testFilePath).sourcePath
    ELSE IF Len(Matches(testFilePath)) = 1
    THEN PathOfEntry(Matches(testFilePath)[1])
    ELSE PathJoin(ProjectRoot, testFilePath)

\* --------------------------------------------------- rewriteFailureMessages
\* rawLine.replace(/^\[string\s+"(.+?)"\]\s*/i, "$1") (lower-case wrappers)
StripStringWrapper(rawLine) ==
    LET k == ClassRunEnd(rawLine, 8, Whitespace)
        q == IndexOfFrom(rawLine, <<"\"", "]">>, k + 2)
    IN  IF /\ StartsWithAt(rawLine, 1, <<"[", "s", "t", "r", "i", "n", "g">>)
           /\ k > 8 /\ k <= Len(rawLine) /\ rawLine[k] = "\""
           /\ q # 0
        THEN SubSeq(rawLine, k + 1, q - 1)
                \o SliceFrom(rawLine, ClassRunEnd(rawLine, q + 2, Whitespace))
        ELSE rawLine

\* /^(.*):(\d+)(?::(\d+))?(?:\s|$)/ matches with the first group ending
\* right before the colon at index e
StackMatchAt(s, e) ==
    LET d == ClassRunEnd(s, e + 1, Digits)
        c == ClassRunEnd(s, d + 1, Digits)
    IN  /\ s[e] = ":" /\ d > e + 1
        /\ \/ d > Len(s) \/ s[d] \in Whitespace
           \/ /\ s[d] = ":" /\ c > d + 1
              /\ c > Len(s) \/ s[c] \in Whitespace

\* the match of that pattern: the first group is greedy, so it ends at the
\* last colon that allows a match (index 0: no match)
StackMatch(s) ==
    LET ends == {e \in 1..Len(s) : StackMatchAt(s, e)}
        e == CHOOSE x \in ends : \A y \in ends : y <= x
        d == ClassRunEnd(s, e + 1, Digits)
        c == ClassRunEnd(s, d + 1, Digits)
        hasCol == d <= Len(s) /\ s[d] = ":" /\ c > d + 1
    IN  IF ends = {} THEN [index |-> 0, filePart |-> <<>>, lineStr |-> <<>>, colStr |-> <<>>]
        ELSE [index |-> 1,
              filePart |-> SubSeq(s, 1, e - 1),
              lineStr |-> SubSeq(s, e + 1, d - 1),
              colStr |-> IF hasCol THEN SubSeq(s, d + 1, c - 1) ELSE <<>>]

\* `    at ${absFile}:${finalLine}:${finalCol}` for a line the pattern matched
StackLine(stackMatch, mapped) ==
    <<" ", " ", " ", " ", "a", "t", " ">> \o
    (IF mapped # NoFrame THEN FrameText(PathResolve(mapped.file), mapped)
     ELSE FrameText(PathResolve(stackMatch.filePart),
                    [line |-> ToNumber(stackMatch.lineStr),
                     column |-> IF stackMatch.colStr = <<>> THEN 1
                                ELSE ToNumber(stackMatch.colStr)]))

\* what the loop of rewriteFailureMessage pushes for one non-blank line
RewriteLine(cache, rawLine) ==
    With(StripStringWrapper(rawLine), LAMBDA strippedLine :
    With(StackMatch(strippedLine), LAMBDA stackMatch :
        IF stackMatch.index = 0 THEN strippedLine
        ELSE With(MapDatamodelFrame(cache, stackMatch.filePart,
                                    ToNumber(stackMatch.lineStr)),
                  LAMBDA mapped : StackLine(stackMatch, mapped))))

\* the lines of the text rewriteStackString returns that are not blank
StackLines(cache, text) ==
    With(SplitLines(RewriteStackString(cache, text, TRUE)), LAMBDA lines :
        SelectSeq(lines, LAMBDA rawLine : Trim(rawLine) # <<>>))

\* rewriteFailureMessage(text)
RewriteFailureMessage(cache, text) ==
    IF text = <<>> THEN text
    ELSE With(StackLines(cache, text), LAMBDA lines :
            With([i \in DOMAIN lines |-> RewriteLine(cache, lines[i])], JoinLines))

\* rewriteFailureMessages(messages)
RewriteFailureMessages(cache, messages) ==
    With([i \in DOMAIN messages |-> RewriteFailureMessage(cache, messages[i])],
         LAMBDA rewritten : SelectSeq(rewritten, LAMBDA msg : msg # <<>>))

\* the files the line pass of rewriteFailureMessage reads for lines
LineFiles(lines) ==
    UNION {FilesOfFrame(StackMatch(StripStringWrapper(lines[k])).filePart) :
           k \in DOMAIN lines}

\* the files rewriteFailureMessages reads: those of the frames of each text
\* and those of the path found on each line of the rewritten text
FilesOfMessages(cache, messages) ==
    UNION {FilesOfText(messages[i]) \cup
           With(StackLines(cache, messages[i]), LineFiles) :
           i \in DOMAIN messages}

\* ------------------------------------------------------- rewriteSuiteResult
\* A suite result: its testFilePath and the failureMessages of its cases.
\* The sample suites carry no suite-level failureMessage and the rewriter is
\* built without testLocationInResults, so case locations stay as they are.
SuiteResult(testFilePath, testResults) ==
    [testFilePath |-> testFilePath, testResults |-> testResults,
     failureMessage |-> Undefined]

TestResult(failureMessages) ==
    [location |-> Undefined, failureMessages |-> failureMessages]

\* the suite after rewriteSuiteResult(suite)
RewriteSuiteResult(cache, suite) ==
    [suite EXCEPT
        !.testFilePath = PathResolve(DatamodelPathToSourcePath(suite.testFilePath)),
        !.testResults = [i \in DOMAIN suite.testResults |->
            [suite.testResults[i] EXCEPT
                !.failureMessages = RewriteFailureMessages(cache, @)]]]

\* the files rewriteSuiteResult reads
FilesOfSuite(cache, suite) ==
    UNION {FilesOfMessages(cache, suite.testResults[i].failureMessages) :
           i \in DOMAIN suite.testResults}
\* ------------------------------------------------------ rewriteCoverageData
\* A coverage map is the sequence of its entries [key, coverage] in the
\* order Object.entries gives them; a coverage object has a path (Undefined:
\* none) and a count of covered statements.
Coverage(coveragePath, statements) == [path |-> coveragePath, s |-> statements]

\* obj[key] = value: an own key keeps its place, a new key goes to the end
ObjectSet(obj, key, value) ==
    IF \E i \in DOMAIN obj : obj[i].key = key
    THEN [i \in DOMAIN obj |->
            IF obj[i].key = key THEN [key |-> key, coverage |-> value] ELSE obj[i]]
    ELSE Append(obj, [key |-> key, coverage |-> value])

\* the keys of an object
Keys(obj) == {obj[i].key : i \in DOMAIN obj}

\* obj[key] for an own key
Get(obj, key) == obj[CHOOSE i \in DOMAIN obj : obj[i].key = key].coverage

\* path.resolve(entry?.luauPath ?? datamodelPath)
FinalPath(datamodelPath) ==
    With(ModulePathMapGet(ReplaceChar(datamodelPath, "/", <<".">>)), LAMBDA entry :
        PathResolve(IF entry = NoEntry THEN datamodelPath ELSE entry.luauPath))

\* a clone that keeps the path it came with
ClonedCoverage(coverage, finalPath) == coverage

\* { ...coverage } with the path property updated if it has one
RewrittenCoverage(coverage, finalPath) ==
    IF coverage.path # Undefined /\ coverage.path # <<>>
    THEN [coverage EXCEPT !.path = finalPath]
    ELSE coverage

\* the object `rewritten` after the loop ran for the entries from i on
RECURSIVE RewriteCoverageEntries(_, _, _)
RewriteCoverageEntries(coverageData, i, rewritten) ==
    IF i > Len(coverageData) THEN rewritten
    ELSE IF coverageData[i].key = <<"t", "o", "t", "a", "l">>
    THEN RewriteCoverageEntries(coverageData, i + 1,
            ObjectSet(rewritten, coverageData[i].key, coverageData[i].coverage))
    ELSE RewriteCoverageEntries(coverageData, i + 1,
            ObjectSet(rewritten, FinalPath(coverageData[i].key),
                      RewrittenCoverage(coverageData[i].coverage,
                                        FinalPath(coverageData[i].key))))

\* rewriteCoverageData(coverageData) for a coverage map
RewriteCoverageData(coverageData) == RewriteCoverageEntries(coverageData, 1, <<>>)

\* --------------------------------------------------------------------- json
\* a case result with a status
CaseResult(status) == [status |-> status]

\* the suite object after the three renames of the loop of json: message,
\* assertionResults and name are set, failureMessage, testResults and
\* testFilePath are deleted
RenamedSuite(suite) ==
    [message |-> IF suite.failureMessage = Undefined THEN <<>>
                 ELSE suite.failureMessage,
     assertionResults |-> suite.testResults,
     name |-> suite.testFilePath]

\* suite.testResults || []
TestResultsOrNone(suite) ==
    IF "testResults" \in DOMAIN suite THEN suite.testResults ELSE <<>>

\* overallPassed after the loop over suite.testResults || []
OverallPassed(suite) ==
    \A i \in DOMAIN TestResultsOrNone(suite) :
        TestResultsOrNone(suite)[i].status # "failed"

\* the suite object at the end of the loop body of json
JsonSuite(suite) ==
    With(RenamedSuite(suite), LAMBDA renamed :
        [message |-> renamed.message,
         assertionResults |-> renamed.assertionResults,
         name |-> renamed.name,
         status |-> IF OverallPassed(renamed) THEN "passed" ELSE "failed"])

\* json(jestRunCliReturn): the results with the coverage as coverageMap
\* (Undefined: none) and every suite converted
Json(jestRunCliReturn) ==
    [coverageMap |-> jestRunCliReturn.coverage,
     testResults |-> [i \in DOMAIN jestRunCliReturn.results.testResults |->
                        JsonSuite(jestRunCliReturn.results.testResults[i])]]


\* -------------------------------------------- the rewriter's operations
\* the largest line number asked for
MaxLine == 5

\* the largest number of context lines of a code frame
MaxContext == 1

\* how often an operation is applied again to its own result
MaxPasses == 1

\* sample stack texts
Texts ==
    {<<"E", "r", "r", "o", "r", " ", "a", "t", " ", "A", ".", "B", ".", "t", "e", "s", "t", ":", "2">>,
     <<"A", ".", "B", ".", "t", "e", "s", "t", ":", "2", " ", "A", ".", "B", ".", "t", "e", "s", "t", ":", "2", "0">>,
     <<"A", ".", "B", ".", "t", "e", "s", "t", ":", "2", "0", " ", "A", ".", "B", ".", "t", "e", "s", "t", ":", "2">>,
     <<"A", ".", "l", "i", "b", ":", "2", " ", "A", ".", "l", "i", "b", ":", "2", "0">>,
     <<"x", ".", "y", ":", "1", " ", "A", ".", "B", ".", "t", "e", "s", "t", ":", "3", ":", "7">>,
     <<"n", "o", " ", "f", "r", "a", "m", "e">>,
     <<"A", ".", "B", ".", "t", "e", "s", "t", ":", "2", " ", "z", "A", ".", "B", ".", "t", "e", "s", "t", ":", "2">>,
     <<"E", "r", "r", "o", "r", "\n", " ", "a", "t", " ", "A", ".", "B", ".", "t", "e", "s", "t", ":", "5", "\n", " ", "a", "t", " ", "r", "b", "x", "t", "s", "_", "i", "n", "c", "l", "u", "d", "e", ".", "n", "o", "d", "e", "_", "m", "o", "d", "u", "l", "e", "s", ".", "p", ":", "5">>}

\* sample datamodel paths of frames
FramePaths == {<<"A", ".", "B", ".", "t", "e", "s", "t">>, <<"A", ".", "l", "i", "b">>, <<"o", "u", "t", "/", "t", "e", "s", "t", ".", "l", "u", "a", "u">>, <<"x", ".", "y">>}

\* sample testFilePaths of suites
TestFilePaths ==
    {<<"B", "/", "t", "e", "s", "t">>, <<"B", "\\", "t", "e", "s", "t">>, <<"t", "e", "s", "t">>, <<"l", "i", "b">>, <<"i", "b">>, <<"x", "/", "y">>, <<"A", ".", "B", ".", "t", "e", "s", "t">>}

\* sample suite results
SuiteResults ==
    {SuiteResult(<<"B", "/", "t", "e", "s", "t">>, <<TestResult(<<<<"E", "r", "r", "o", "r", "\n", " ", " ", "a", "t", " ", "A", ".", "B", ".", "t", "e", "s", "t", ":", "2">>>>)>>),
     SuiteResult(<<"t", "e", "s", "t">>, <<TestResult(<<>>)>>),
     SuiteResult(<<"x", "/", "y">>, <<TestResult(<<<<"[", "s", "t", "r", "i", "n", "g", " ", "\"", "A", ".", "B", ".", "t", "e", "s", "t", "\"", "]", ":", "3", ":", " ", "b", "o", "o", "m", "\n", "\n", "x", ".", "y", ":", "4">>>>)>>)}

\* the largest number of entries of a coverage map
MaxEntries == 3

\* The keys of the sample coverage maps, in the order the runtime lists them:
\* the summary key, module addresses with slashes (one with a module-map
\* entry, one without) and an address written with dots.
CoverageKeys == <<<<"t", "o", "t", "a", "l">>, <<"A", "/", "B", "/", "t", "e", "s", "t">>, <<"x", "/", "y">>, <<"A", ".", "B", ".", "t", "e", "s", "t">>>>

\* the coverage object the runtime reports under a key: a summary without a
\* path under "total", a file coverage with the key as its path otherwise
CoverageOf(key) ==
    IF key = <<"t", "o", "t", "a", "l">> THEN Coverage(Undefined, 9)
    ELSE Coverage(key, IF Includes(key, <<"/">>) THEN Len(key) ELSE Len(key) + 10)

\* the elements of list at the positions in chosen, from position i on
RECURSIVE Picked(_, _, _)
Picked(list, chosen, i) ==
    IF i > Len(list) THEN <<>>
    ELSE (IF i \in chosen THEN <<list[i]>> ELSE <<>>) \o Picked(list, chosen, i + 1)

\* list with its last element first
RECURSIVE Reversed(_)
Reversed(list) ==
    IF list = <<>> THEN <<>> ELSE Reversed(Tail(list)) \o <<Head(list)>>

\* the selections of at most n elements of list, in the order of list
Selections(list, n) ==
    {Picked(list, chosen, 1) :
        chosen \in {c \in SUBSET DOMAIN list : Cardinality(c) <= n}}

\* the coverage maps of at most MaxEntries entries with these keys, listed
\* in that order or in the opposite one
CoverageMaps ==
    {[i \in DOMAIN keys |-> [key |-> keys[i], coverage |-> CoverageOf(keys[i])]] :
        keys \in Selections(CoverageKeys, MaxEntries)
                    \cup Selections(Reversed(CoverageKeys), MaxEntries)}

\* the largest number of suites of a result handed to json
MaxSuites == 2

\* sample suites with the statuses of their cases
StatusSuites ==
    <<SuiteResult(<<"/", "r", "/", "s", "r", "c", "/", "a", ".", "t", "s">>, <<CaseResult("passed"), CaseResult("passed")>>),
      SuiteResult(<<"/", "r", "/", "s", "r", "c", "/", "b", ".", "t", "s">>, <<CaseResult("passed"), CaseResult("failed")>>),
      SuiteResult(<<"/", "r", "/", "s", "r", "c", "/", "c", ".", "t", "s">>, <<CaseResult("pending")>>),
      SuiteResult(<<"/", "r", "/", "s", "r", "c", "/", "d", ".", "t", "s">>, <<>>)>>

\* sample return values of a run: results of up to MaxSuites of these
\* suites, with or without coverage
JestRunCliReturns ==
    {[results |-> [testResults |-> suites], coverage |-> coverage] :
        suites \in Selections(StatusSuites, MaxSuites),
        coverage \in {Undefined, <<"c", "o", "v", "e", "r", "a", "g", "e">>}}

\* the files of the project and one that does not exist
FilePaths == DOMAIN project.files \cup {<<"/", "r", "/", "n", "o", "n", "e", ".", "t", "s">>}

RewriterCall(method, args, result, again) ==
    [method |-> method, args |-> args, result |-> result, again |-> again]

\* the state after new ResultRewriter(...) for one of the sample projects
RewriterInit ==
    /\ options = [maxWorkers |-> 0, debug |-> FALSE, passWithNoTests |-> FALSE,
                  testPathPattern |-> NoPattern, coverage |-> FALSE]
    /\ fsFiles = DiscoverTestFiles(0)
    /\ pc = "start"
    /\ testSuites = <<>>
    /\ workers = <<>>
    /\ shard = <<>>
    /\ invocations = <<>>
    /\ lastSettled = 0
    /\ parsedResults = NoValue
    /\ reporters = <<>>
    /\ rIdx = 0
    /\ calls = <<>>
    /\ coverageReport = NoCoverage
    /\ exitCode = -1
    /\ project \in Projects
    /\ fileCache = <<>>
    /\ lastCall = NoCall

\* readLines(filePath)
ReadLinesCall ==
    \E filePath \in FilePaths :
        /\ lastCall' = RewriterCall("readLines", <<filePath>>,
                            ReadLines(fileCache, filePath), 0)
        /\ fileCache' = CacheAfterReading(fileCache, {filePath})
        /\ UNCHANGED <<project, runVars>>

\* findSourceLine(luauPath, sourcePath, luauLineNumber) for the files of an entry
FindSourceLineCall ==
    \E i \in DOMAIN project.entries, luauLineNumber \in 1..MaxLine :
        LET luauPath == project.entries[i].absoluteLuauPath
            sourcePath == SourceForColumn(project.entries[i])
        IN  /\ lastCall' = RewriterCall("findSourceLine",
                                <<luauPath, sourcePath, luauLineNumber>>,
                                FindSourceLine(fileCache, luauPath, sourcePath,
                                               luauLineNumber), 0)
            /\ fileCache' = CacheAfterReading(fileCache, {luauPath, sourcePath})
            /\ UNCHANGED <<project, runVars>>

\* mapDatamodelFrame(datamodelPath, lineNumber)
MapDatamodelFrameCall ==
    \E datamodelPath \in FramePaths, lineNumber \in 1..MaxLine :
        /\ lastCall' = RewriterCall("mapDatamodelFrame", <<datamodelPath, lineNumber>>,
                            MapDatamodelFrame(fileCache, datamodelPath, lineNumber), 0)
        /\ fileCache' = CacheAfterReading(fileCache, FilesOfFrame(datamodelPath))
        /\ UNCHANGED <<project, runVars>>

\* buildCodeFrame(absPath, line, column, context)
BuildCodeFrameCall ==
    \E absPath \in FilePaths, line \in 1..MaxLine, context \in 0..MaxContext :
        /\ lastCall' = RewriterCall("buildCodeFrame", <<absPath, line, context>>,
                            BuildCodeFrame(fileCache, absPath, line, context), 0)
        /\ fileCache' = CacheAfterFrame(fileCache, absPath)
        /\ UNCHANGED <<project, runVars>>

\* rewriteStackString(value, {absolutePaths}) for a sample text
RewriteStackStringCall ==
    \E value \in Texts, absolutePaths \in BOOLEAN :
        /\ lastCall' = RewriterCall("rewriteStackString", <<value, absolutePaths>>,
                            RewriteStackString(fileCache, value, absolutePaths), 0)
        /\ fileCache' = CacheAfterReading(fileCache, FilesOfText(value))
        /\ UNCHANGED <<project, runVars>>

\* rewriteStackString applied to the text the last call of it returned
RewriteStackStringAgain ==
    /\ lastCall.method = "rewriteStackString"
    /\ lastCall.again < MaxPasses
    /\ lastCall' = RewriterCall("rewriteStackString", <<lastCall.result, lastCall.args[2]>>,
                        RewriteStackString(fileCache, lastCall.result,
                                           lastCall.args[2]),
                        lastCall.again + 1)
    /\ fileCache' = CacheAfterReading(fileCache, FilesOfText(lastCall.result))
    /\ UNCHANGED <<project, runVars>>

\* datamodelPathToSourcePath(testFilePath)
DatamodelPathToSourcePathCall ==
    \E testFilePath \in TestFilePaths :
        /\ lastCall' = RewriterCall("datamodelPathToSourcePath", <<testFilePath>>,
                            DatamodelPathToSourcePath(testFilePath), 0)
        /\ UNCHANGED <<project, fileCache, runVars>>

\* rewriteCoverageData(coverageData) for a sample coverage map
RewriteCoverageDataCall ==
    \E coverageData \in CoverageMaps :
        /\ lastCall' = RewriterCall("rewriteCoverageData", <<coverageData>>,
                            RewriteCoverageData(coverageData), 0)
        /\ UNCHANGED <<project, fileCache, runVars>>

\* json(jestRunCliReturn) for a sample return value
JsonCall ==
    \E jestRunCliReturn \in JestRunCliReturns :
        /\ lastCall' = RewriterCall("json", <<jestRunCliReturn>>,
                            Json(jestRunCliReturn), 0)
        /\ UNCHANGED <<project, fileCache, runVars>>

\* rewriteSuiteResult(suite) for a sample suite
RewriteSuiteResultCall ==
    \E suite \in SuiteResults :
        /\ lastCall' = RewriterCall("rewriteSuiteResult", <<suite>>,
                            RewriteSuiteResult(fileCache, suite), 0)
        /\ fileCache' = CacheAfterReading(fileCache, FilesOfSuite(fileCache, suite))
        /\ UNCHANGED <<project, runVars>>

\* rewriteSuiteResult applied to a suite it has just rewritten
RewriteSuiteResultAgain ==
    /\ lastCall.method = "rewriteSuiteResult"
    /\ lastCall.again < MaxPasses
    /\ lastCall' = RewriterCall("rewriteSuiteResult", <<lastCall.result>>,
                        RewriteSuiteResult(fileCache, lastCall.result),
                        lastCall.again + 1)
    /\ fileCache' = CacheAfterReading(fileCache,
                                      FilesOfSuite(fileCache, lastCall.result))
    /\ UNCHANGED <<project, runVars>>

RewriterNext ==
    \/ ReadLinesCall
    \/ FindSourceLineCall
    \/ MapDatamodelFrameCall
    \/ BuildCodeFrameCall
    \/ RewriteStackStringCall
    \/ RewriteStackStringAgain
    \/ DatamodelPathToSourcePathCall
    \/ RewriteCoverageDataCall
    \/ JsonCall
    \/ RewriteSuiteResultCall
    \/ RewriteSuiteResultAgain

RewriterSpec == RewriterInit /\ [][RewriterNext]_vars
\* ================================================================ claims
FanOutRun == workers # <<>>

ShardCount == Len(shard)

RECURSIVE SumOverShards(_, _)
SumOverShards(field, k) ==
    IF k = 0 THEN 0 ELSE shard[k].result.results[field] + SumOverShards(field, k - 1)

\* C1: in a fan-out run whose shards all returned a results record, every
\* count field of the merged result is the sum of that field over the shards.
C1_MergedCountsAreSums ==
    (/\ pc \in {"collected", "reporting", "done"}
     /\ FanOutRun
     /\ \A k \in 1..ShardCount : shard[k].result.kind = "payload")
    => \A field \in CountFields :
           parsedResults.results[field] = SumOverShards(field, ShardCount)

\* three shards, one of them without any test: 2 + 1 + 0 passed tests
C1_Witness ==
    /\ pc = "collected"
    /\ FanOutRun
    /\ ShardCount = 3
    /\ \A k \in 1..ShardCount : shard[k].result.kind = "payload"
    /\ \E k \in 1..ShardCount : shard[k].result.results.numTotalTests = 0
    /\ parsedResults.results.numPassedTests = 3
    /\ parsedResults.results.numTotalTestSuites = 4

\* C2: the merged success flag is false exactly when some shard reported
\* success = false.
C2_MergedSuccessIsConjunction ==
    (pc = "collected" /\ FanOutRun)
    => (parsedResults.results.success = FALSE
        <=> \E k \in 1..ShardCount :
                /\ shard[k].result.kind = "payload"
                /\ shard[k].result.results.success = FALSE)

\* the first shard failed, the last one passed, the merged flag is false
C2_Witness ==
    /\ pc = "collected"
    /\ FanOutRun
    /\ shard[1].result.kind = "payload"
    /\ shard[1].result.results.success = FALSE
    /\ shard[ShardCount].result.kind = "payload"
    /\ shard[ShardCount].result.results.success = TRUE
    /\ parsedResults.results.success = FALSE

\* C3: a fan-out run one of whose shards ended with "No tests found" and
\* exit signal 1 does not end with exit code 0.
C3_NoTestsShardFailsTheRun ==
    (/\ pc = "done"
     /\ FanOutRun
     /\ \E k \in 1..ShardCount : shard[k].result = ExitValue(1))
    => exitCode # 0

\* C4: once a shard's execution has thrown, the run is rejected: no merged
\* result is built, nothing is reported and no reporter method is called.
C4_ShardThrowAbortsTheRun ==
    (FanOutRun /\ \E k \in 1..ShardCount : shard[k].status = "rejected")
    => /\ pc = "rejected"
       /\ parsedResults = NoValue
       /\ reporters = <<>>
       /\ calls = <<>>
       /\ exitCode = -1

\* one shard threw after another had completed with results; all have settled
C4_Witness ==
    /\ FanOutRun
    /\ \E k \in 1..ShardCount : shard[k].status = "rejected"
    /\ \E k \in 1..ShardCount :
           shard[k].status = "fulfilled" /\ shard[k].result.kind = "payload"
    /\ \A k \in 1..ShardCount : shard[k].status # "running"

InShard(k, file) ==
    \E j \in 1..Len(workers[k].suites) : workers[k].suites[j] = file

\* C5: every shard's filter matches, among the discovered files, exactly the
\* files of that shard.
C5_FilterMatchesOwnFilesOnly ==
    pc = "fanout"
    => \A k \in 1..ShardCount : \A i \in 1..Len(testSuites) :
           RegexTest(shard[k].filter, testSuites[i]) <=> InShard(k, testSuites[i])

\* the least c with c * w >= n
CeilingOf(n, w) == CHOOSE c \in 0..n : c * w >= n /\ \A d \in 0..n : d * w >= n => c <= d

ShardSizes == [k \in 1..Len(workers) |-> Len(workers[k].suites)]

\* C6: the shards are the consecutive slices of length ceil(n/w) of the
\* discovered list: at most w, none empty, pairwise disjoint, concatenating to
\* the list; 7 files over 3 workers gives sizes 3, 3, 1.
C6_ShardsAreCeilingSlices ==
    (FanOutRun /\ \A k \in 1..ShardCount : shard[k].status = "running")
    => LET n == Len(testSuites)
           w == EffectiveMaxWorkers
           c == CeilingOf(n, w)
       IN  /\ Len(workers) >= 1 /\ Len(workers) <= w
           /\ \A k \in 1..Len(workers) :
                  /\ workers[k].id = k - 1
                  /\ Len(workers[k].suites) >= 1
                  /\ k < Len(workers) => Len(workers[k].suites) = c
                  /\ k = Len(workers) => Len(workers[k].suites) = n - (k - 1) * c
                  /\ \A j \in 1..Len(workers[k].suites) :
                         workers[k].suites[j] = testSuites[(k - 1) * c + j]
           /\ \A j, k \in 1..Len(workers) :
                  j # k => \A i \in 1..n : ~(InShard(j, testSuites[i]) /\ InShard(k, testSuites[i]))
           /\ Flatten([k \in 1..Len(workers) |-> workers[k].suites]) = testSuites
           /\ (n = 7 /\ w = 3 => ShardSizes = <<3, 3, 1>>)

C6_Witness ==
    /\ pc = "fanout"
    /\ Len(testSuites) = 7
    /\ EffectiveMaxWorkers = 3
    /\ ShardSizes = <<3, 3, 1>>

\* C7: when discovery finds no test file, the run ends with exit code 0 and
\* a successful empty result, and the runtime is never invoked.
C7_EmptyDiscoverySucceeds ==
    (/\ UseParallel /\ options.testPathPattern = NoPattern
     /\ Len(fsFiles) = 0
     /\ pc \in {"done", "rejected"})
    => /\ pc = "done"
       /\ exitCode = 0
       /\ parsedResults.kind = "payload"
       /\ parsedResults.results.success
       /\ parsedResults.results.testResults = <<>>
       /\ \A field \in CountFields : parsedResults.results[field] = 0
       /\ invocations = <<>>

\* C8: two shards in flight at the same time never write the same output file.
C8_ShardsInFlightUseDistinctFiles ==
    FanOutRun
    => \A j, k \in 1..ShardCount :
           (j # k /\ shard[j].status = "running" /\ shard[k].status = "running")
           => shard[j].out # shard[k].out

\* C9: whatever the order of completion, the merged testResults is the
\* concatenation of the shards' lists in ascending worker index.
C9_SuitesFollowWorkerIndex ==
    (pc = "collected" /\ FanOutRun)
    => parsedResults.results.testResults
         = Flatten([k \in 1..ShardCount |-> shard[k].result.results.testResults])

\* the last shard completed before an earlier one, both with suites
C9_Witness ==
    /\ pc = "collected"
    /\ FanOutRun
    /\ lastSettled \in 1..(ShardCount - 1)
    /\ shard[lastSettled].result.results.testResults # <<>>
    /\ shard[ShardCount].result.results.testResults # <<>>

IsPrefix(s, t) == Len(s) <= Len(t) /\ SubSeq(t, 1, Len(s)) = s

\* the calls the claim prescribes for reporter r over the suites 1..n
PrescribedCalls(r, n) ==
    LET rep == reporters[r]
    IN  (IF rep.onRunStart THEN <<Call(r, "onRunStart", 0)>> ELSE <<>>)
        \o Flatten([i \in 1..n |->
                IF rep.onTestResult THEN <<Call(r, "onTestResult", i)>>
                ELSE IF rep.onTestStart THEN <<Call(r, "onTestStart", i)>>
                ELSE <<>>])
        \o (IF rep.onRunComplete THEN <<Call(r, "onRunComplete", 0)>> ELSE <<>>)

PrescribedLifecycle ==
    Flatten([r \in 1..Len(reporters) |->
                PrescribedCalls(r, Len(parsedResults.results.testResults))])

\* C10: reporter by reporter, in configured order: onRunStart once, then per
\* suite in testResults order one onTestResult (or onTestStart when there is
\* no onTestResult), then onRunComplete once.
C10_ReporterLifecycle ==
    (pc \in {"reporting", "done"} /\ parsedResults.kind = "payload")
    => /\ IsPrefix(calls, PrescribedLifecycle)
       /\ rIdx > Len(reporters) => calls = PrescribedLifecycle

\* two reporters went through their whole lifecycle over at least two
\* suites, the first one falling back to onTestStart
C10_Witness ==
    /\ pc = "done"
    /\ Len(reporters) = 2
    /\ ~reporters[1].onTestResult /\ reporters[1].onTestStart
    /\ reporters[2].onTestResult
    /\ Len(parsedResults.results.testResults) >= 2
    /\ calls = PrescribedLifecycle
    /\ Len(calls) >= 6

\* C11: a run that went through reporting returns 0 exactly when the final
\* results' success flag is true, and 1 otherwise.
C11_ExitCodeFollowsSuccess ==
    (pc = "done" /\ rIdx >= 1)
    => /\ exitCode \in {0, 1}
       /\ exitCode = 0 <=> parsedResults.results.success

\* a reported run without a failed test whose only suite failed to load: 1
C11_Witness ==
    /\ pc = "done"
    /\ rIdx > Len(reporters)
    /\ calls # <<>>
    /\ parsedResults.results.numFailedTests = 0
    /\ ~parsedResults.results.success
    /\ exitCode = 1

MalformedLog(log) ==
    log.payload # "unread" /\ (~log.marker \/ log.payload = "not json")

RunAborted ==
    /\ pc = "rejected"
    /\ parsedResults = NoValue
    /\ reporters = <<>>
    /\ calls = <<>>
    /\ exitCode = -1

RECURSIVE SpanBySpan(_, _, _, _)
SpanBySpan(cache, value, absolutePaths, from) ==
    LET match == Exec(value, from)
        mapped == MapDatamodelFrame(cache, match.filePart, ToNumber(match.lineStr))
        filePath == IF absolutePaths THEN PathResolve(mapped.file)
                    ELSE FormatPath(mapped.file)
    IN  IF match = NoMatch THEN SliceFrom(value, from)
        ELSE SubSeq(value, from, match.index - 1)
             \o (IF mapped = NoFrame THEN FullMatch(value, match)
                 ELSE FrameText(filePath, mapped))
             \o SpanBySpan(cache, value, absolutePaths, match.lastIndex)

\* C13: rewriteStackString replaces every matched span whose path resolves
\* through the module map by the path, line and column resolved for that
\* span's own path and line, whatever other frames the text has; for the
\* entry A.B.test -> out/test.luau, src/test.ts the text
\* "Error at A.B.test:2" becomes a text containing "test.ts:2".
C13_EverySpanResolvedOnItsOwn ==
    lastCall.method = "rewriteStackString" =>
        /\ lastCall.result =
              SpanBySpan(fileCache, lastCall.args[1], lastCall.args[2], 1)
        /\ (project = FixtureProject /\ lastCall.args[1] = <<"E", "r", "r", "o", "r", " ", "a", "t", " ", "A", ".", "B", ".", "t", "e", "s", "t", ":", "2">>)
              => Includes(lastCall.result, <<"t", "e", "s", "t", ".", "t", "s", ":", "2">>)

\* C14: rewriteStackString applied to its own output returns that output
\* unchanged.
C14_SecondRewriteChangesNothing ==
    (lastCall.method = "rewriteStackString" /\ lastCall.again > 0) =>
        lastCall.result = lastCall.args[1]

\* C15: with unchanged file contents every call of findSourceLine returns
\* the value of the first such call, whatever other operations ran in
\* between. A first call can be made on a rewriter that has read no file
\* yet, so every call returns what the call returns with an empty cache.
C15_CacheNeverAltersSourceLine ==
    lastCall.method = "findSourceLine" =>
        lastCall.result =
            FindSourceLine(<<>>, lastCall.args[1], lastCall.args[2], lastCall.args[3])

\* the lines of a file on disk
LinesOnDisk(filePath) == SplitLines(project.files[filePath])

\* line n of the compiled file has text and the source file has lines with
\* the same trimmed text
HasIdenticalLine(luauPath, sourcePath, n) ==
    /\ ExistsSync(luauPath) /\ ExistsSync(sourcePath)
    /\ Trim(LineText(LinesOnDisk(luauPath), n)) # <<>>
    /\ \E i \in DOMAIN LinesOnDisk(sourcePath) :
          Trim(LinesOnDisk(sourcePath)[i]) = Trim(LineText(LinesOnDisk(luauPath), n))

\* C16: if line n of the compiled file has non-empty trimmed text and the
\* source file contains a line with identical trimmed text, findSourceLine
\* returns the 1-based index of that source line (the first one), whatever
\* blank lines surround it.
C16_IdenticalLineIsFound ==
    (/\ lastCall.method = "findSourceLine"
     /\ HasIdenticalLine(lastCall.args[1], lastCall.args[2], lastCall.args[3])) =>
        LET source == LinesOnDisk(lastCall.args[2])
            target == Trim(LineText(LinesOnDisk(lastCall.args[1]), lastCall.args[3]))
        IN  lastCall.result =
                FindIndex({i \in DOMAIN source : Trim(source[i]) = target})

\* the entries whose address has the separator-normalized path as a suffix
SuffixMatches(testFilePath) ==
    {i \in DOMAIN project.entries :
        EndsWith(project.entries[i].datamodelPath, MatchingPath(testFilePath))}

C18_SecondSuiteRewriteChangesNothing ==
    (lastCall.method = "rewriteSuiteResult" /\ lastCall.again > 0) =>
        lastCall.result = lastCall.args[1]

\* /rbxts_include\.node_modules/i, /@rbxts-js\.Promise/i and
\* /@rbxts-js\.JestCircus/i (the sample texts are lower-case where it matters)
InternalFramePatterns ==
    {<<"r", "b", "x", "t", "s", "_", "i", "n", "c", "l", "u", "d", "e", ".", "n", "o", "d", "e", "_", "m", "o", "d", "u", "l", "e", "s">>, <<"@", "r", "b", "x", "t", "s", "-", "j", "s", ".", "P", "r", "o", "m", "i", "s", "e">>, <<"@", "r", "b", "x", "t", "s", "-", "j", "s", ".", "J", "e", "s", "t", "C", "i", "r", "c", "u", "s">>}

\* C19: the text returned by rewriteStackString has no line that matches one
\* of the internal-infrastructure patterns.
C19_NoInternalFrameLines ==
    lastCall.method = "rewriteStackString" =>
        \A i \in DOMAIN SplitLines(lastCall.result) :
            \A pat \in InternalFramePatterns :
                ~Includes(SplitLines(lastCall.result)[i], pat)

\* min(fileLength, line + contextLines)
ClippedEnd(lines, line, context) ==
    IF line + context < Len(lines) THEN line + context ELSE Len(lines)

\* C20: for a readable file buildCodeFrame renders exactly the lines
\* max(1, line - contextLines) .. min(fileLength, line + contextLines) and
\* puts the marker on exactly one rendered line, the target line.
C20_FrameIsCentredWindow ==
    (/\ lastCall.method = "buildCodeFrame"
     /\ ExistsSync(lastCall.args[1])
     /\ lastCall.args[2] <= Len(fileCache[lastCall.args[1]])) =>
        LET lines == fileCache[lastCall.args[1]]
            line == lastCall.args[2]
            first == FrameStart(line, lastCall.args[3])
            last == ClippedEnd(lines, line, lastCall.args[3])
            rows == SplitLines(lastCall.result)
        IN  /\ rows = [k \in 1..(last - first + 1) |->
                         FrameRow(lines, first + k - 1, line, Len(NumToString(last)))]
            /\ Cardinality({k \in DOMAIN rows : rows[k][5] = ">"}) = 1

\* the entries of a coverage map that rewriteCoverageData stores under key
StoredUnder(coverageData, key) ==
    {i \in DOMAIN coverageData :
        /\ coverageData[i].key # <<"t", "o", "t", "a", "l">>
        /\ FinalPath(coverageData[i].key) = key}

RECURSIVE KeptPieces(_, _, _)
KeptPieces(value, from, piece) ==
    With(Exec(value, from), LAMBDA match :
        IF match = NoMatch THEN <<piece \o SliceFrom(value, from)>>
        ELSE IF LookupEntry(match.filePart) # NoEntry
        THEN <<piece \o SubSeq(value, from, match.index - 1)>>
             \o KeptPieces(value, match.lastIndex, <<>>)
        ELSE KeptPieces(value, match.lastIndex,
                        piece \o SubSeq(value, from, match.lastIndex - 1)))

\* text from position pos on is pieces[k], anything, pieces[k + 1], ...,
\* anything, pieces[Len(pieces)]
RECURSIVE HasPiecesFrom(_, _, _, _)
HasPiecesFrom(text, pos, pieces, k) ==
    IF k = Len(pieces)
    THEN Len(text) - Len(pieces[k]) + 1 >= pos /\ EndsWith(text, pieces[k])
    ELSE /\ IndexOfFrom(text, pieces[k], pos) # 0
         /\ HasPiecesFrom(text, IndexOfFrom(text, pieces[k], pos) + Len(pieces[k]),
                          pieces, k + 1)

\* text is the pieces in their order with something in place of each
\* resolved span
HasPieces(text, pieces) ==
    IF Len(pieces) = 1 THEN text = pieces[1]
    ELSE /\ StartsWithAt(text, 1, pieces[1])
         /\ HasPiecesFrom(text, Len(pieces[1]) + 1, pieces, 2)

\* C22: rewriteStackString returns a text without a path-like span as it
\* is, and in any text it leaves every span whose path does not resolve
\* through the module map, and the text around the spans, character for
\* character as it was, also when other spans of the text are rewritten.
C22_UnresolvedSpansUntouched ==
    lastCall.method = "rewriteStackString" =>
        /\ Exec(lastCall.args[1], 1) = NoMatch => lastCall.result = lastCall.args[1]
        /\ HasPieces(lastCall.result, KeptPieces(lastCall.args[1], 1, <<>>))

\* C23: in a fan-out run with coverage collection the coverage maps of the
\* shards are merged, the merged map goes once through rewriteCoverageData
\* and on to the coverage reports: no entry of a shard's coverage map is
\* missing from the map the run reports.
C23_MergedCoverageIsReported ==
    (/\ pc = "done" /\ rIdx >= 1
     /\ FanOutRun
     /\ options.coverage) =>
        /\ coverageReport # NoCoverage
        /\ coverageReport.rewrites = 1
        /\ \A k \in 1..ShardCount :
              shard[k].result.coverage # NoCoverage =>
                  shard[k].result.coverage.entries \subseteq coverageReport.entries

\* a single run with coverage reported its map, rewritten once
SingleRunReportsCoverage ==
    /\ pc = "done" /\ ~FanOutRun /\ options.coverage
    /\ coverageReport # NoCoverage
    /\ coverageReport.rewrites = 1
    /\ coverageReport = [shard[1].result.coverage EXCEPT !.rewrites = 1]

\* C24: without options.debug no output file of a call exists any more once
\* the call's executeLuauTest has settled, whether it returned a result or
\* threw (non-zero exit code, timeout of the runtime, output that cannot be
\* parsed).
C24_NoOutputFileAfterSettling ==
    ~options.debug =>
        \A k \in 1..Len(shard) :
            shard[k].status # "running" => ~shard[k].kept

\* C25: a run goes the single way, exactly one call of the runtime with the
\* caller's own filter, whenever one test file was discovered or the worker
\* count is at most 1; it fans out, one call per shard with the shard's
\* filter, whenever at least two files were discovered and the worker count
\* is at least 2, and such a run gets to its results only through the merge
\* of all shards' results.
C25_SingleOrFanOutByCounts ==
    pc # "start" =>
        /\ (Len(testSuites) = 1 \/ EffectiveMaxWorkers <= 1) =>
              /\ workers = <<>>
              /\ invocations = <<options.testPathPattern>>
              /\ Len(shard) = 1
        /\ (Len(testSuites) >= 2 /\ EffectiveMaxWorkers >= 2) =>
              /\ workers # <<>>
              /\ Len(shard) = Len(workers)
              /\ invocations = [k \in 1..Len(workers) |->
                                   TestPathPattern(workers[k].suites)]
              /\ pc \in {"collected", "reporting", "done"} =>
                    /\ \A k \in 1..Len(shard) : shard[k].status = "fulfilled"
                    /\ parsedResults.kind = "payload"

\* a run of seven discovered files and three workers fanned out into three
\* calls and was merged
C25_Witness ==
    /\ Len(testSuites) = 7 /\ EffectiveMaxWorkers = 3
    /\ Len(invocations) = 3 /\ pc = "reporting"

\* a run with one discovered file and three workers went the single way
C25_SingleRun ==
    /\ Len(testSuites) = 1 /\ EffectiveMaxWorkers = 3
    /\ pc = "done" /\ Len(invocations) = 1

\* the snapshot records of the shards that returned one, in worker order
RECURSIVE ShardSnapshots(_)
ShardSnapshots(k) ==
    IF k = 0 THEN <<>>
    ELSE ShardSnapshots(k - 1)
         \o (IF shard[k].result.kind = "payload"
                /\ shard[k].result.results.snapshot # NoSnapshot
             THEN <<shard[k].result.results.snapshot>> ELSE <<>>)

RECURSIVE SumOfField(_, _)
SumOfField(snapshots, field) ==
    IF snapshots = <<>> THEN 0
    ELSE Head(snapshots)[field] + SumOfField(Tail(snapshots), field)

RECURSIVE ConcatOfField(_, _)
ConcatOfField(snapshots, field) ==
    IF snapshots = <<>> THEN <<>>
    ELSE Head(snapshots)[field] \o ConcatOfField(Tail(snapshots), field)

NumericSnapshotFields ==
    {"added", "matched", "unchecked", "unmatched", "updated", "filesAdded",
     "filesRemoved", "filesUnmatched", "filesUpdated", "total"}

ListSnapshotFields == {"uncheckedKeys", "filesRemovedList", "uncheckedKeysByFile"}

FlagSnapshotFields == {"fileDeleted", "didUpdate", "failure"}

\* C26: the merged snapshot statistics of a fan-out run combine every field
\* of every shard's snapshot record: a numeric field is the sum over the
\* shards, a list field is the concatenation of the shards' lists in worker
\* order, and a flag (fileDeleted, didUpdate, failure) is true if and only
\* if it is true for at least one shard.
C26_SnapshotFieldsAreCombined ==
    (pc \in {"collected", "reporting", "done"} /\ FanOutRun) =>
        LET merged == parsedResults.results.snapshot
            snapshots == ShardSnapshots(ShardCount)
        IN  /\ \A field \in NumericSnapshotFields :
                  merged[field] = SumOfField(snapshots, field)
            /\ \A field \in ListSnapshotFields :
                  merged[field] = ConcatOfField(snapshots, field)
            /\ \A field \in FlagSnapshotFields :
                  merged[field] <=> \E i \in DOMAIN snapshots : snapshots[i][field]

\* C27: with passWithNoTests a run is reported successful (success true,
\* exit code 0) only when no suite failed or errored: while
\* numFailedTestSuites or numRuntimeErrorTestSuites is above 0 the success
\* flag is what the runtime reported, never forced to true.
C27_NoForcedSuccessOverFailedSuites ==
    (/\ options.passWithNoTests
     /\ pc \in {"reporting", "done"}
     /\ parsedResults.kind = "payload"
     /\ \/ parsedResults.results.numFailedTestSuites > 0
        \/ parsedResults.results.numRuntimeErrorTestSuites > 0) =>
        /\ parsedResults.results.success =>
              \A k \in 1..Len(shard) : shard[k].result.results.success
        /\ (pc = "done" /\ exitCode = 0) =>
              \A k \in 1..Len(shard) : shard[k].result.results.success

\* the frame texts `${P}:${L}:${C}` that rewriteStackString(value,
\* {absolutePaths: true}) puts in place of the spans of value, from `from` on
RECURSIVE ResolvedFrames(_, _, _)
ResolvedFrames(cache, value, from) ==
    With(Exec(value, from), LAMBDA match :
        IF match = NoMatch THEN {}
        ELSE With(MapDatamodelFrame(cache, match.filePart, ToNumber(match.lineStr)),
                  LAMBDA mapped :
                      (IF mapped = NoFrame THEN {}
                       ELSE {FrameText(PathResolve(mapped.file), mapped)})
                      \cup ResolvedFrames(cache, value, match.lastIndex)))

\* C28: for every failure message of a case, a stack frame that
\* rewriteStackString resolves to the absolute path P, line L and column C
\* is, in the message rewriteFailureMessages returns, a line of the exact
\* form "    at P:L:C".
C28_ResolvedFrameKeptByLinePass ==
    lastCall.method = "rewriteSuiteResult" =>
        \A i \in DOMAIN lastCall.args[1].testResults :
            LET messages == lastCall.args[1].testResults[i].failureMessages
                rewritten == lastCall.result.testResults[i].failureMessages
            IN  \A j \in DOMAIN messages :
                    \A frame \in ResolvedFrames(fileCache, messages[j], 1) :
                        /\ j \in DOMAIN rewritten
                        /\ \E k \in DOMAIN SplitLines(rewritten[j]) :
                              SplitLines(rewritten[j])[k] = <<" ", " ", " ", " ", "a", "t", " ">> \o frame

\* C29: in the object json() produces, the status of each suite is "failed"
\* if and only if at least one entry of its assertionResults has the status
\* "failed", and "passed" otherwise.
C29_SuiteStatusFollowsItsCases ==
    lastCall.method = "json" =>
        \A i \in DOMAIN lastCall.result.testResults :
            LET suite == lastCall.result.testResults[i]
            IN  suite.status =
                  IF \E k \in DOMAIN suite.assertionResults :
                        suite.assertionResults[k].status = "failed"
                  THEN "failed" ELSE "passed"

\* the entries whose address ends with the segments of the
\* separator-normalized path: the address is that path or ends with a dot
\* followed by it
SegmentMatches(testFilePath) ==
    {i \in DOMAIN project.entries :
        \/ project.entries[i].datamodelPath = MatchingPath(testFilePath)
        \/ EndsWith(project.entries[i].datamodelPath,
                    <<".">> \o MatchingPath(testFilePath))}

\* C30: the suffix match of datamodelPathToSourcePath counts an address only
\* when its trailing dot-separated segments are the segments of the queried
\* path; an address that ends with the same characters inside a longer
\* segment is no match, so a path with no exact entry resolves to an entry
\* only if exactly one address matches by segments.
C30_SuffixMatchIsBySegments ==
    (/\ lastCall.method = "datamodelPathToSourcePath"
     /\ LookupEntry(lastCall.args[1]) = NoEntry) =>
        IF Cardinality(SegmentMatches(lastCall.args[1])) = 1
        THEN \E i \in SegmentMatches(lastCall.args[1]) :
                lastCall.result = PathOfEntry(project.entries[i])
        ELSE lastCall.result = PathJoin(ProjectRoot, lastCall.args[1])


====
